---- MODULE Spec2Model ----
(***************************************************************************)
(* Model of the Terabox downloader bot (rendersg1/teraboxdl).              *)
(*                                                                         *)
(*   src/terabox_utils.py   URL classifier, share resolver (TeraboxFile),  *)
(*                          link generator (TeraboxLink), orchestrator     *)
(*                          (extract_terabox_download_link)                *)
(*   src/telegram_utils.py  process_message, handle_command, send_video,   *)
(*                          extract_url_from_text                          *)
(*   src/app.py             webhook                                        *)
(*                                                                         *)
(* Texts and URLs are TLA+ strings, read character by character with       *)
(* SubSeq, so the regular expressions, urlparse and the punctuation trim   *)
(* are computed on the characters as the code computes them.               *)
(***************************************************************************)
EXTENDS Integers, Sequences, FiniteSets, TLC

VARIABLES
    bot,    \* the webhook / process_message frame of the request being served
    ex,     \* the extract_terabox_download_link frame (locals, tf, tl, result)
    sh,     \* reference frame: the same extraction fed the same upstream
            \* responses, with a progress callback that always succeeds
    tg,     \* the Telegram Bot API calls issued for the request, in order
    fn      \* harness for the pure functions: [op, input, output]

vars == <<bot, ex, sh, tg, fn>>

\* Python's None.  No text or URL of the model is this string.
None == "<None>"

-----------------------------------------------------------------------------
(* Characters and strings                                                  *)

LowerStr == "abcdefghijklmnopqrstuvwxyz"
UpperStr == "ABCDEFGHIJKLMNOPQRSTUVWXYZ"
DigitStr == "0123456789"

\* s[m-1:n] with Python's clamping of slice bounds
Sub(s, m, n) ==
    LET lo == IF m < 1 THEN 1 ELSE m
        hi == IF n > Len(s) THEN Len(s) ELSE n
    IN  IF lo > hi THEN "" ELSE SubSeq(s, lo, hi)

\* s[i-1:i]: the character at 1-based index i, "" outside the string
Char(s, i) == Sub(s, i, i)

CharsOf(s) == { Char(s, i) : i \in 1..Len(s) }

Lower == CharsOf(LowerStr)
Upper == CharsOf(UpperStr)
Digit == CharsOf(DigitStr)

\* str.isspace for the characters of the model's texts
Space == { " ", "\n", "\t" }

\* s[i:i+len(lit)] == lit
StartsWithAt(s, i, lit) ==
    /\ i >= 1
    /\ i + Len(lit) - 1 <= Len(s)
    /\ Sub(s, i, i + Len(lit) - 1) = lit

\* lit in s
Contains(s, lit) == \E i \in 1..Len(s) : StartsWithAt(s, i, lit)

\* s.find(lit, from) as a 1-based index, 0 when absent
FindFrom(s, lit, from) ==
    LET hits == { i \in from..Len(s) : StartsWithAt(s, i, lit) }
    IN  IF hits = {} THEN 0 ELSE CHOOSE i \in hits : \A j \in hits : i <= j

Find(s, lit) == FindFrom(s, lit, 1)

\* the index just after the longest run of characters of class cls from i
RunEnd(s, i, cls) ==
    LET stops == { j \in i..Len(s) : Char(s, j) \notin cls }
    IN  IF stops = {} THEN Len(s) + 1
        ELSE CHOOSE j \in stops : \A k \in stops : j <= k

\* the index just after the longest run of characters outside class cls from i
RunEndNot(s, i, cls) ==
    LET stops == { j \in i..Len(s) : Char(s, j) \in cls }
    IN  IF stops = {} THEN Len(s) + 1
        ELSE CHOOSE j \in stops : \A k \in stops : j <= k

\* s[i:] and s[:i-1]
From(s, i) == Sub(s, i, Len(s))
Upto(s, i) == Sub(s, 1, i)

\* str.lower
LowerChar(c) ==
    IF c \in Upper
    THEN Char(LowerStr, CHOOSE i \in 1..26 : Char(UpperStr, i) = c)
    ELSE c

RECURSIVE lower(_)
lower(s) == IF s = "" THEN "" ELSE LowerChar(Head(s)) \o lower(Tail(s))

\* int(group) of a run of decimal digits
DigitVal(c) == (CHOOSE i \in 1..10 : Char(DigitStr, i) = c) - 1

RECURSIVE StrToNat(_)
StrToNat(s) ==
    IF s = "" THEN 0
    ELSE StrToNat(Upto(s, Len(s) - 1)) * 10 + DigitVal(Char(s, Len(s)))

\* urllib.parse.unquote on the escapes the model's URLs use; any other text
\* is copied unchanged, as unquote does with text that holds no escape
Escapes == { <<"%20", " ">>, <<"%2D", "-">>, <<"%2E", ".">>, <<"%41", "A">> }

RECURSIVE unquote(_)
unquote(s) ==
    IF s = "" THEN ""
    ELSE IF \E e \in Escapes : StartsWithAt(s, 1, e[1])
         THEN (CHOOSE e \in Escapes : StartsWithAt(s, 1, e[1]))[2]
                  \o unquote(From(s, 4))
         ELSE Head(s) \o unquote(Tail(s))

\* str.replace(old, new): every non-overlapping occurrence, left to right
RECURSIVE replace(_, _, _)
replace(s, old, new) ==
    IF s = "" THEN ""
    ELSE IF StartsWithAt(s, 1, old)
         THEN new \o replace(From(s, Len(old) + 1), old, new)
         ELSE Head(s) \o replace(Tail(s), old, new)

\* str.split(sep) for a one-character separator: the pieces, in order
RECURSIVE split(_, _)
split(s, sep) ==
    LET i == Find(s, sep)
    IN  IF i = 0 THEN <<s>>
        ELSE <<Upto(s, i - 1)>> \o split(From(s, i + 1), sep)

\* str.split(): the maximal runs of non-whitespace characters, in order
RECURSIVE words(_)
words(s) ==
    LET i == RunEnd(s, 1, Space)
        j == RunEndNot(s, i, Space)
    IN  IF i > Len(s) THEN << >>
        ELSE <<Sub(s, i, j - 1)>> \o words(From(s, j))

-----------------------------------------------------------------------------
(* urllib.parse: urlparse and parse_qs                                     *)

SchemeChars == Lower \cup Upper \cup Digit \cup { "+", "-", "." }

\* str.partition(sep), given the index i of the first sep (0 when absent)
PartitionAt(s, i) ==
    IF i = 0 THEN [found |-> FALSE, head |-> s, tail |-> ""]
    ELSE [found |-> TRUE, head |-> Upto(s, i - 1), tail |-> From(s, i + 1)]

partition(s, sep) == PartitionAt(s, Find(s, sep))

\* urlsplit: the text before the first ":" is the scheme when it starts with
\* a letter and holds scheme characters only
SplitScheme(url, p) ==
    IF /\ p.found
       /\ Char(p.head, 1) \in Lower \cup Upper
       /\ \A k \in 1..Len(p.head) : Char(p.head, k) \in SchemeChars
    THEN [scheme |-> lower(p.head), rest |-> p.tail]
    ELSE [scheme |-> "", rest |-> url]

\* urlsplit: after "//" the netloc runs to the first of "/", "?", "#"
NetlocUpto(u, end) ==
    [scheme |-> u.scheme, netloc |-> Sub(u.rest, 3, end - 1),
     rest |-> From(u.rest, end)]

SplitNetloc(u) ==
    IF StartsWithAt(u.rest, 1, "//")
    THEN NetlocUpto(u, RunEndNot(u.rest, 3, { "/", "?", "#" }))
    ELSE [scheme |-> u.scheme, netloc |-> "", rest |-> u.rest]

\* urlsplit: the fragment after the first "#", then the query after the
\* first "?"
SplitFragment(u, p) ==
    [scheme |-> u.scheme, netloc |-> u.netloc, rest |-> p.head,
     fragment |-> p.tail]

SplitQuery(u, p) ==
    [scheme |-> u.scheme, netloc |-> u.netloc, path |-> p.head,
     query |-> p.tail, fragment |-> u.fragment]

WithFragment(u) == SplitFragment(u, partition(u.rest, "#"))
WithQuery(u) == SplitQuery(u, partition(u.rest, "?"))

\* urlparse(url): scheme, netloc, path, query, fragment.  The URLs of the
\* model hold no ";" (path parameters) and no bracketed host.
urlparse(url) ==
    WithQuery(WithFragment(SplitNetloc(SplitScheme(url, partition(url, ":")))))

\* parse_qs(query)[name][0], or None when the key is absent: the fields are
\* split on "&", a field without "=" and a field with a blank value are
\* dropped (keep_blank_values is False), "+" becomes a space and the
\* percent-escapes of name and value are decoded
qs_decode(s) == unquote(replace(s, "+", " "))

\* one field of the query: its decoded name and value; it is kept when it
\* has "=" and a value that is not blank
FieldOf(p) ==
    [kept |-> p.found /\ p.tail # "",
     name |-> qs_decode(p.head), value |-> qs_decode(p.tail)]

FirstValue(fields, name) ==
    LET hits == { i \in 1..Len(fields) :
                    fields[i].kept /\ fields[i].name = name }
    IN  IF hits = {} THEN None
        ELSE fields[CHOOSE i \in hits : \A j \in hits : i <= j].value

RECURSIVE ParseFields(_)
ParseFields(pieces) ==
    IF pieces = << >> THEN << >>
    ELSE << FieldOf(partition(Head(pieces), "=")) >>
             \o ParseFields(Tail(pieces))

parse_qs_first(query, name) == FirstValue(ParseFields(split(query, "&")), name)

-----------------------------------------------------------------------------
(* URL classifier: src/terabox_utils.py                                    *)

\* re.search(r'd\-[a-z0-9\-]+\.terabox\.com/file/', url)
HostLabelChars == Lower \cup Digit \cup { "-" }

MatchesDownloadHost(url) ==
    \E i \in 1..Len(url) :
        /\ StartsWithAt(url, i, "d-")
        /\ \E j \in (i + 3)..Len(url) :
              /\ \A k \in (i + 2)..(j - 1) : Char(url, k) \in HostLabelChars
              /\ StartsWithAt(url, j, ".terabox.com/file/")

\* re.search(r'size=\d+', url)
MatchesSize(url) ==
    \E i \in 1..Len(url) :
        StartsWithAt(url, i, "size=") /\ Char(url, i + 5) \in Digit

\* re.search(r'fin=.+?\.mp4', url)
MatchesFin(url) ==
    \E i \in 1..Len(url) :
        /\ StartsWithAt(url, i, "fin=")
        /\ \E j \in (i + 5)..Len(url) :
              /\ StartsWithAt(url, j, ".mp4")
              /\ \A k \in (i + 4)..(j - 1) : Char(url, k) # "\n"

\* re.search(r'fid=\d+\-\d+\-\d+', url)
MatchesFid(url) ==
    \E i \in 1..Len(url) :
        /\ StartsWithAt(url, i, "fid=")
        /\ LET a == RunEnd(url, i + 4, Digit)
               b == RunEnd(url, a + 1, Digit)
           IN  /\ a > i + 4
               /\ Char(url, a) = "-"
               /\ b > a + 1
               /\ Char(url, b) = "-"
               /\ Char(url, b + 1) \in Digit

\* Variant of is_direct_download_url: any(patterns)
is_direct_any(url) ==
    MatchesDownloadHost(url)
        \/ (MatchesSize(url) \/ MatchesFin(url) \/ MatchesFid(url))

\* all(patterns[:1]) and any(patterns[1:])
is_direct_download_url(url) ==
    MatchesDownloadHost(url)
        /\ (MatchesSize(url) \/ MatchesFin(url) \/ MatchesFid(url))

\* re.search(name + r'=([^&]+)', url).group(1), or None
FirstParam(url, name) ==
    LET key == name \o "="
        hits == { i \in 1..Len(url) :
                    /\ StartsWithAt(url, i, key)
                    /\ i + Len(key) <= Len(url)
                    /\ Char(url, i + Len(key)) # "&" }
    IN  IF hits = {} THEN None
        ELSE LET i == CHOOSE i \in hits : \A j \in hits : i <= j
                 b == i + Len(key)
             IN  Sub(url, b, RunEndNot(url, b, { "&" }) - 1)

\* the value, percent-decoded, when there is one
Unquoted(value) == IF value = None THEN None ELSE unquote(value)

\* the first of two optional values that is there
OrElse(first, second) == IF first # None THEN first ELSE second

\* Variant of extract_filename_from_url: fin= before fn=
extract_filename_fin_first(url) ==
    OrElse(Unquoted(FirstParam(url, "fin")), Unquoted(FirstParam(url, "fn")))

extract_filename_from_url(url) ==
    OrElse(Unquoted(FirstParam(url, "fn")), Unquoted(FirstParam(url, "fin")))

\* re.search(r'size=(\d+)', url): the digits of the first match, or None
SizeParam(url) ==
    LET hits == { i \in 1..Len(url) :
                    StartsWithAt(url, i, "size=") /\ Char(url, i + 5) \in Digit }
    IN  IF hits = {} THEN None
        ELSE LET i == CHOOSE i \in hits : \A j \in hits : i <= j
             IN  Sub(url, i + 5, RunEnd(url, i + 5, Digit) - 1)

\* f"{x:.2f}" of size_bytes / unit, as hundredths: rounded to nearest, ties
\* to even (the quotient by a power of two is exact, so ties are real).
\* For unit = 1024^3 the product rem * 100 is split to stay within 32 bits.
Hundredths(size_bytes, unit) ==
    LET whole == size_bytes \div unit
        rem == size_bytes % unit
        direct == unit <= 1024 * 1024
        B == 32768
        U == ((rem \div B) * 100) + (((rem % B) * 100) \div B)
        q == IF direct THEN (rem * 100) \div unit ELSE U \div (unit \div B)
        R == IF direct THEN (rem * 100) % unit
             ELSE ((U % (unit \div B)) * B) + (((rem % B) * 100) % B)
        up == R > unit \div 2 \/ (R = unit \div 2 /\ q % 2 = 1)
    IN  whole * 100 + q + (IF up THEN 1 ELSE 0)

TwoDigits(n) == IF n < 10 THEN "0" \o ToString(n) ELSE ToString(n)

Fixed2(h) == ToString(h \div 100) \o "." \o TwoDigits(h % 100)

format_file_size(size_bytes) ==
    IF size_bytes < 1024 THEN ToString(size_bytes) \o " B"
    ELSE IF size_bytes < 1024 * 1024
         THEN Fixed2(Hundredths(size_bytes, 1024)) \o " KB"
    ELSE IF size_bytes < 1024 * 1024 * 1024
         THEN Fixed2(Hundredths(size_bytes, 1024 * 1024)) \o " MB"
    ELSE Fixed2(Hundredths(size_bytes, 1024 * 1024 * 1024)) \o " GB"

\* base_url = f"{scheme}://{netloc}{path}"
BaseUrl(parsed_url) ==
    parsed_url.scheme \o "://" \o parsed_url.netloc \o parsed_url.path

\* if 'teraboxapp.com' in base_url: replace; the replacement of a text that
\* does not hold the domain is the text itself
normalize_url(url) ==
    replace(BaseUrl(urlparse(url)), "teraboxapp.com", "terabox.com")

\* path_parts = parsed_url.path.split('/'): the identifier after "/s/"
PathId(path_parts) ==
    IF Len(path_parts) >= 3 /\ path_parts[2] = "s" THEN path_parts[3]
    ELSE None

\* Variant of SurlOf: the identifier of the path before the query parameter
SurlOf_path_first(parsed_url) ==
    OrElse(PathId(split(parsed_url.path, "/")),
           IF parsed_url.query # ""
           THEN parse_qs_first(parsed_url.query, "surl") ELSE None)

\* query_params.get('surl', [None])[0] or the identifier of the path
SurlOf(parsed_url) ==
    OrElse(IF parsed_url.query # ""
           THEN parse_qs_first(parsed_url.query, "surl") ELSE None,
           PathId(split(parsed_url.path, "/")))

extract_surl_parameter(url) == SurlOf(urlparse(url))

-----------------------------------------------------------------------------
(* Text handling: src/telegram_utils.py                                    *)

\* terabox_domains of extract_url_from_text
ExtractDomains ==
    << "terabox.com", "teraboxapp.com", "1024terabox.com", "terabox.app",
       "www.terabox.app", "terabox.hnn.workers.dev", "dm.terabox.com",
       "d-jp02-cpt.terabox.com", "d-jp02-zen.terabox.com",
       "teraboxshare.com" >>

\* terabox_domains of process_message
MessageDomains ==
    << "terabox.com", "teraboxapp.com", "1024terabox.com", "terabox.app",
       "www.terabox.app", "terabox.hnn.workers.dev", "dm.terabox.com",
       "teraboxshare.com" >>

\* Variant of ContainsAny: the name before the first dot is enough
ContainsAny_stem(s, domains) == Contains(s, "terabox.")

ContainsAny(s, domains) ==
    \E d \in 1..Len(domains) : Contains(s, domains[d])

\* the characters the token scan trims, in the order the loop tries them
TrimChars == << ".", ",", "!", "?", ")" >>

\* t.startswith(s)
IsPrefixOf(s, t) == Len(s) <= Len(t) /\ Sub(t, 1, Len(s)) = s

\* url.endswith(char)
EndsWith(s, suffix) ==
    Len(s) >= Len(suffix) /\ Sub(s, Len(s) - Len(suffix) + 1, Len(s)) = suffix

\* for char in ['.', ',', '!', '?', ')']: if url.endswith(char): url = url[:-1]
RECURSIVE TrimPass(_, _)
TrimPass(url, k) ==
    IF k > Len(TrimChars) THEN url
    ELSE TrimPass(IF EndsWith(url, TrimChars[k])
                  THEN Upto(url, Len(url) - 1) ELSE url, k + 1)

\* re.search(r'(https?://d\-[a-z0-9\-]+\.terabox\.com/file/[^\s]+)', text):
\* the leftmost match, its last group running to the next whitespace
DirectMatchAt(text, i) ==
    LET p == IF StartsWithAt(text, i, "https://d-") THEN i + 10
             ELSE IF StartsWithAt(text, i, "http://d-") THEN i + 9
             ELSE 0
        ends == { j \in (p + 1)..Len(text) :
                    /\ \A k \in p..(j - 1) : Char(text, k) \in HostLabelChars
                    /\ StartsWithAt(text, j, ".terabox.com/file/")
                    /\ j + 18 <= Len(text)
                    /\ Char(text, j + 18) \notin Space }
    IN  IF p = 0 \/ ends = {} THEN 0
        ELSE RunEndNot(text, (CHOOSE j \in ends : TRUE) + 18, Space)

DirectScan(text) ==
    LET hits == { i \in 1..Len(text) : DirectMatchAt(text, i) > 0 }
    IN  IF hits = {} THEN None
        ELSE LET i == CHOOSE i \in hits : \A j \in hits : i <= j
             IN  Sub(text, i, DirectMatchAt(text, i) - 1)

\* the token the word-by-word scan stops at, or None
MatchedToken(text) ==
    LET ws == words(text)
        hits == { i \in 1..Len(ws) : ContainsAny(ws[i], ExtractDomains) }
    IN  IF hits = {} THEN None
        ELSE ws[CHOOSE i \in hits : \A j \in hits : i <= j]

\* the trim of the token the scan stopped at
Trimmed(url) == IF url = None THEN None ELSE TrimPass(url, 1)

TokenScan(text) == Trimmed(MatchedToken(text))

extract_url_from_text(text) == OrElse(DirectScan(text), TokenScan(text))

\* The fixed texts, by their first line
StartText == "Welcome to the Terabox Downloader Bot!"
HelpText == "Terabox Downloader Bot - Help"
AboutText == "About Terabox Downloader Bot"
UnknownCommandText == "Unknown command. Type /help to see available commands."
GuidanceText ==
    "Please send me a Terabox link to extract the direct download URL."
NoLinkText == "Could not find a valid Terabox link in your message."
ProcessingText == "Processing your Terabox link... Please wait."
NonTextText ==
    "I can only process text messages. Please send me a Terabox link."

handle_command(command) ==
    IF command = "/start" THEN StartText
    ELSE IF command = "/help" THEN HelpText
    ELSE IF command = "/about" THEN AboutText
    ELSE UnknownCommandText

\* Variant of IsCommand: a text that holds a known hostname is no command
IsCommand_unless_link(message_text) ==
    StartsWithAt(message_text, 1, "/")
        /\ ~ContainsAny(message_text, MessageDomains)

\* The branch process_message takes for a text
IsCommand(message_text) == StartsWithAt(message_text, 1, "/")

HasTeraboxLink(message_text) ==
    ~IsCommand(message_text) /\ ContainsAny(message_text, MessageDomains)

-----------------------------------------------------------------------------
(* Share resolver: class TeraboxFile, src/terabox_utils.py                 *)
(*                                                                         *)
(* An upstream answer is [kind |-> "exc"] (the request or .json() raised)  *)
(* or [kind |-> "json", body |-> <object>]; a JSON object is a function    *)
(* from its keys, so a missing key is a key outside DOMAIN.  A JSON number *)
(* is written as its decimal text.  A directory item carries, in the field *)
(* "listing", the answer the upstream gives to share/list for its path.    *)

Has(obj, key) == key \in DOMAIN obj

\* dict.get(key, default)
Get(obj, key, default) == IF Has(obj, key) THEN obj[key] ELSE default

Call(api, arg) == [api |-> api, arg |-> arg]

\* TeraboxFile.__init__: self.result; short_url is set by search
TeraboxFile_init ==
    [result |-> [status |-> "failed", sign |-> "", timestamp |-> "",
                 shareid |-> "", uk |-> "", list |-> << >>],
     short_url |-> None]

checkFileType(name) ==
    LET n == lower(name)
        any(exts) == \E k \in 1..Len(exts) : EndsWith(n, exts[k])
    IN  IF any(<< ".jpg", ".jpeg", ".png", ".gif", ".webp" >>) THEN "image"
        ELSE IF any(<< ".mp4", ".mkv", ".avi", ".mov", ".flv", ".webm" >>)
             THEN "video"
        ELSE IF any(<< ".mp3", ".wav", ".flac", ".ogg", ".m4a" >>)
             THEN "audio"
        ELSE "other"

\* int(x) succeeds on a run of decimal digits
IsInt(x) == x # None /\ x # "" /\ \A i \in 1..Len(x) : Char(x, i) \in Digit

\* packData and getChildFile.  The value is [files, calls, raised]: the
\* listing returned, the share/list requests issued while building it, and
\* whether an exception left the function (packData itself catches all).
RECURSIVE packItems(_, _, _)
RECURSIVE packData(_, _)

Packed(files, calls, raised) ==
    [files |-> files, calls |-> calls, raised |-> raised]

\* the keys and the conversion the loop body needs: any missing raises
Complete(item) ==
    /\ Has(item, "isdir") /\ Has(item, "path")
    /\ Has(item, "fs_id") /\ Has(item, "server_filename")
    /\ IsInt(item.isdir)

\* bool(int(item.get('isdir')))
IsDir(item) == StrToNat(item.isdir) # 0

\* file_info of the loop body, before 'child'
FileInfo(item) ==
    [is_dir |-> item.isdir,
     path |-> item.path,
     fs_id |-> item.fs_id,
     name |-> item.server_filename,
     type |-> IF IsDir(item) THEN "other"
              ELSE checkFileType(item.server_filename),
     size |-> IF IsDir(item) THEN "" ELSE Get(item, "size", None),
     image |-> IF IsDir(item) THEN ""
               ELSE Get(Get(item, "thumbs", << >>), "url3", "")]

\* file_info['child'] = ...
WithChild(file_info, child) ==
    [ f \in DOMAIN file_info \cup { "child" } |->
        IF f = "child" THEN child ELSE file_info[f] ]

\* all_file.append(file_info), then the rest of the loop
Appended(file_info, calls, rest) ==
    Packed(<< file_info >> \o rest.files, calls \o rest.calls, rest.raised)

\* the loop body of a directory item, given what getChildFile did
DirItem(items, k, short_url, child) ==
    IF child.raised THEN Packed(<< >>, child.calls, TRUE)
    ELSE Appended(WithChild(FileInfo(items[k]), child.files), child.calls,
                  packItems(items, k + 1, short_url))

\* the request of getChildFile, then the packData it returns
ChildOf(call, sub) == Packed(sub.files, << call >> \o sub.calls, FALSE)

\* getChildFile(short_url, path): the request, then packData of its answer;
\* an exception of the request is not caught here
getChildFile(short_url, item) ==
    IF item.listing.kind = "exc"
    THEN Packed(<< >>,
                << Call("share/list", short_url \o "&dir=" \o item.path) >>,
                TRUE)
    ELSE ChildOf(Call("share/list", short_url \o "&dir=" \o item.path),
                 packData(item.listing.body, short_url))

\* the loop of packData over req['list'][k..]
packItems(items, k, short_url) ==
    IF k > Len(items) THEN Packed(<< >>, << >>, FALSE)
    ELSE IF ~Complete(items[k]) THEN Packed(<< >>, << >>, TRUE)
    ELSE IF IsDir(items[k])
         THEN DirItem(items, k, short_url, getChildFile(short_url, items[k]))
    ELSE Appended(FileInfo(items[k]), << >>,
                  packItems(items, k + 1, short_url))

\* Variant of CatchAll: the entries packed before the exception are returned
CatchAll_partial(r) == Packed(r.files, r.calls, FALSE)

\* except Exception: return []
CatchAll(r) == Packed(IF r.raised THEN << >> ELSE r.files, r.calls, FALSE)

packData(req, short_url) ==
    IF ~Has(req, "list") THEN Packed(<< >>, << >>, FALSE)
    ELSE CatchAll(packItems(req.list, 1, short_url))

\* Variant of Stored: the list is stored first, the keys with a default
Stored_defaults(result, req, all_file) ==
    IF Len(all_file) = 0 THEN result
    ELSE [result EXCEPT !.list = all_file,
                        !.shareid = Get(req, "shareid", ""),
                        !.uk = Get(req, "uk", "")]

\* if len(all_file): shareid, uk and list are stored in this order; a
\* missing key raises and leaves what was stored before it
Stored(result, req, all_file) ==
    IF Len(all_file) = 0 \/ ~Has(req, "shareid") THEN result
    ELSE IF ~Has(req, "uk") THEN [result EXCEPT !.shareid = req.shareid]
    ELSE [result EXCEPT !.shareid = req.shareid, !.uk = req.uk,
                        !.list = all_file]

MainFile(tf, req, packed) ==
    [tf |-> [tf EXCEPT !.result = Stored(tf.result, req, packed.files)],
     calls |-> << Call("shorturlinfo", "1" \o tf.short_url) >>
                   \o packed.calls]

\* Variant of getMainFile: a request that raised is sent once more
getMainFile_retry(tf, resp) ==
    IF resp.kind = "exc"
    THEN [tf |-> tf, calls |-> << Call("shorturlinfo", "1" \o tf.short_url),
                                  Call("shorturlinfo", "1" \o tf.short_url) >>]
    ELSE MainFile(tf, resp.body, packData(resp.body, tf.short_url))

\* getMainFile: the new self.result and the requests issued
getMainFile(tf, resp) ==
    IF resp.kind = "exc"
    THEN [tf |-> tf, calls |-> << Call("shorturlinfo", "1" \o tf.short_url) >>]
    ELSE MainFile(tf, resp.body, packData(resp.body, tf.short_url))

\* Variant of getSign: the status is success whatever the answer
getSign_always(tf, resp) ==
    [calls |-> << Call("get-info", tf.short_url) >>,
     tf |-> [tf EXCEPT !.result.status = "success"]]

\* getSign
getSign(tf, resp) ==
    LET call == Call("get-info", tf.short_url)
        failed == [tf EXCEPT !.result.status = "failed"]
        pos == resp.body
    IN  [calls |-> <<call>>,
         tf |-> IF resp.kind = "exc" THEN failed
                ELSE IF ~Has(pos, "ok") THEN failed
                ELSE IF ~pos.ok THEN failed
                ELSE IF ~Has(pos, "sign") THEN failed
                ELSE IF ~Has(pos, "timestamp")
                     THEN [failed EXCEPT !.result.sign = pos.sign]
                ELSE [tf EXCEPT !.result.sign = pos.sign,
                                !.result.timestamp = pos.timestamp,
                                !.result.status = "success"]]

\* re.search(r'surl=([^ &]+)', str(req.url)).group(1), or None
SurlMatch(final_url) ==
    LET hits == { i \in 1..Len(final_url) :
                    /\ StartsWithAt(final_url, i, "surl=")
                    /\ i + 5 <= Len(final_url)
                    /\ Char(final_url, i + 5) \notin { " ", "&" } }
    IN  IF hits = {} THEN None
        ELSE LET i == CHOOSE i \in hits : \A j \in hits : i <= j
             IN  Sub(final_url, i + 5,
                     RunEndNot(final_url, i + 5, { " ", "&" }) - 1)

\* the short identifier: the surl of the final URL, else of the URL asked
ShortId(url, resp) ==
    IF resp.kind = "exc" THEN None
    ELSE IF resp.status # 200 THEN None
    ELSE OrElse(SurlMatch(resp.url), extract_surl_parameter(url))

Searched(tf, url, id) ==
    [calls |-> << Call("page", url) >>,
     found |-> id # None /\ id # "",
     tf |-> IF id # None /\ id # "" THEN [tf EXCEPT !.short_url = id]
            ELSE tf]

\* search, up to the call of getMainFile: the GET of the page and the short
\* identifier.  found = FALSE is search returning False.
search_page(tf, url, resp) == Searched(tf, url, ShortId(url, resp))

-----------------------------------------------------------------------------
(* Link generator: class TeraboxLink, src/terabox_utils.py                 *)

base_urls ==
    << "plain-grass-58b2.comprehensiveaquamarine",
       "royal-block-6609.ninnetta7875",
       "bold-hall-f23e.7rochelle",
       "winter-thunder-0360.belitawhite",
       "fragrant-term-0df9.elviraeducational",
       "purple-glitter-924b.miguelalocal" >>

\* TeraboxLink.__init__: self.result and self.params
TeraboxLink_init(shareid, uk, sign, timestamp, fs_id) ==
    [result |-> [status |-> "failed", download_link |-> << >>],
     params |-> [shareid |-> shareid, uk |-> uk, sign |-> sign,
                 timestamp |-> timestamp, fs_id |-> fs_id]]

\* base64.urlsafe_b64encode(quote(original_url, safe='')): a one-to-one
\* encoding that maps the empty string to the empty string
Encoded(original_url) ==
    IF original_url = "" THEN "" ELSE "b64(" \o original_url \o ")"

\* wrap_url with random.choice(self.base_urls) = base_urls[pick]
wrap_url(original_url, pick) ==
    "https://" \o base_urls[pick] \o ".workers.dev/?url="
        \o Encoded(original_url)

\* dict.update({key: value})
Update(d, key, value) ==
    [ k \in DOMAIN d \cup { key } |-> IF k = key THEN value ELSE d[k] ]

\* Variant of generate_1: the link of the first endpoint is not stored
generate_1_dropped(tl, resp) == tl

\* generate, first try block: POST get-download
generate_1(tl, resp) ==
    IF resp.kind = "json" /\ Has(resp.body, "downloadLink")
    THEN [tl EXCEPT !.result.download_link =
                        Update(@, "url_1", resp.body.downloadLink)]
    ELSE tl

\* generate, second try block: POST get-downloadp, wrap_url; then the status.
\* quote(None) raises, so a null downloadLink stores nothing.
generate_2(tl, resp, pick) ==
    LET t2 == IF /\ resp.kind = "json"
                 /\ Has(resp.body, "downloadLink")
                 /\ resp.body.downloadLink # None
              THEN [tl EXCEPT !.result.download_link =
                        Update(@, "url_2",
                               wrap_url(resp.body.downloadLink, pick))]
              ELSE tl
    IN  IF DOMAIN t2.result.download_link # {}
        THEN [t2 EXCEPT !.result.status = "success"]
        ELSE t2

-----------------------------------------------------------------------------
(* Orchestrator: extract_terabox_download_link, src/terabox_utils.py       *)
(*                                                                         *)
(* A frame holds the locals of one call.  pc names the next event of the   *)
(* call: a progress report ("cb5" .. "cb80") or an upstream request        *)
(* ("page", "listing", "sign", "dl1", "dl2"); "ret" is the call returned   *)
(* and "raised" an exception left the function.  The code between two      *)
(* events runs with the event before it.                                   *)

Success(url, filename, size) ==
    [success |-> TRUE, url |-> url, filename |-> filename, size |-> size]

Failure(error) == [success |-> FALSE, error |-> error]

ErrSearch == "Failed to process the Terabox URL"
ErrSign == "Could not extract sign parameter"
ErrNoFiles == "No files found in the Terabox link"
ErrGenerate == "Failed to generate download links"
ErrNoLink == "No download link generated"
ErrException == "Error processing Terabox link: "

\* The frame of extract_terabox_download_link(url, progress_callback).
\* calls, answers and reports are the log of the call: the upstream requests
\* issued, the answers they were given, and the progress values reported.
\* callback is "none" (no callback passed), "update_progress" (the closure
\* of process_message, which returns normally whatever Telegram answers) or
\* "caller" (any callable of a caller, which may raise).
Frame(url, callback) ==
    [pc |-> "cb5", input |-> url, url |-> url, callback |-> callback,
     tf |-> TeraboxFile_init,
     tl |-> TeraboxLink_init("", "", "", "", ""),
     file_info |-> << >>, filename |-> None, file_size |-> None,
     download_url |-> None,
     calls |-> << >>, answers |-> << >>, reports |-> << >>,
     cb_raised |-> FALSE, result |-> << >>]

IdleFrame == [Frame("", "none") EXCEPT !.pc = "idle"]

Return(e, result) == [e EXCEPT !.pc = "ret", !.result = result]

\* Variant of Caught: no handler, the exception leaves the function
Uncaught(e, what) == [e EXCEPT !.pc = "raised"]

\* except Exception as e: return {"success": False, "error": ...}
Caught(e, what) == Return(e, Failure(ErrException \o what))

\* if progress_callback: progress_callback(progress, step); outcome is what
\* the invocation does: "ok" (it returns) or "raise"
Progress(e, progress, outcome) ==
    IF e.callback = "none" THEN e
    ELSE LET e1 == [e EXCEPT !.reports = Append(@, progress)]
         IN  IF outcome = "raise"
             THEN Caught([e1 EXCEPT !.cb_raised = TRUE], "callback")
             ELSE e1

\* What an invocation of the frame's callback may do
Outcomes(e) == IF e.callback = "caller" THEN { "ok", "raise" } ELSE { "ok" }

\* progress 5, then the classification and, on the share flow, normalize_url
Step_cb5(e, outcome) ==
    LET e1 == Progress(e, 5, outcome)
    IN  IF e1.pc = "ret" THEN e1
        ELSE IF is_direct_download_url(e1.url) THEN [e1 EXCEPT !.pc = "cb40"]
        ELSE [e1 EXCEPT !.pc = "cb10", !.url = normalize_url(e1.url)]

\* if not filename: filename = "TeraboxFile"
FilenameOr(filename) ==
    IF filename = None \/ filename = "" THEN "TeraboxFile" ELSE filename

\* file_size = "Unknown size", or format_file_size(int(digits))
FileSizeOf(size) ==
    IF size = None \/ size = "" THEN "Unknown size"
    ELSE format_file_size(StrToNat(size))

\* direct path: progress 40, then filename and size from the URL
Step_cb40(e, outcome) ==
    LET e1 == Progress(e, 40, outcome)
    IN  IF e1.pc = "ret" THEN e1
        ELSE [e1 EXCEPT
                !.pc = "cb60",
                !.filename = FilenameOr(extract_filename_from_url(e1.url)),
                !.file_size = FileSizeOf(SizeParam(e1.url))]

\* direct path: progress 60, then the result
Step_cb60(e, outcome) ==
    LET e1 == Progress(e, 60, outcome)
    IN  IF e1.pc = "ret" THEN e1
        ELSE Return(e1, Success(e1.url, e1.filename, e1.file_size))

\* share flow: progress 10, then tf = TeraboxFile()
Step_cb10(e, outcome) ==
    LET e1 == Progress(e, 10, outcome)
    IN  IF e1.pc = "ret" THEN e1
        ELSE [e1 EXCEPT !.pc = "page", !.tf = TeraboxFile_init]

\* tf.search(url): the page request and the short identifier
AfterSearch(e, r) ==
    IF r.found
    THEN [e EXCEPT !.pc = "listing", !.calls = @ \o r.calls, !.tf = r.tf]
    ELSE Return([e EXCEPT !.calls = @ \o r.calls, !.tf = r.tf],
                Failure(ErrSearch))

Step_page(e, resp) ==
    AfterSearch([e EXCEPT !.answers = Append(@, resp)],
                search_page(e.tf, e.url, resp))

\* the requests and the new self.result of a method of tf
AfterCall(e, r, pc) == [e EXCEPT !.pc = pc, !.calls = @ \o r.calls, !.tf = r.tf]

\* tf.search(url): self.getMainFile()
Step_listing(e, resp) ==
    AfterCall([e EXCEPT !.answers = Append(@, resp)],
              getMainFile(e.tf, resp), "sign")

\* tf.search(url): self.getSign(); return True
Step_sign(e, resp) ==
    AfterCall([e EXCEPT !.answers = Append(@, resp)],
              getSign(e.tf, resp), "cb30")

\* progress 30, then the checks of the resolver's result
Step_cb30(e, outcome) ==
    LET e1 == Progress(e, 30, outcome)
    IN  IF e1.pc = "ret" THEN e1
        ELSE IF e1.tf.result.status # "success"
             THEN Return(e1, Failure(ErrSign))
        ELSE IF Len(e1.tf.result.list) = 0
             THEN Return(e1, Failure(ErrNoFiles))
        ELSE [e1 EXCEPT !.pc = "cb50", !.file_info = e1.tf.result.list[1]]

\* progress 50, then tl = TeraboxLink(...)
Step_cb50(e, outcome) ==
    LET e1 == Progress(e, 50, outcome)
        r == e1.tf.result
    IN  IF e1.pc = "ret" THEN e1
        ELSE [e1 EXCEPT
                !.pc = "dl1",
                !.tl = TeraboxLink_init(r.shareid, r.uk, r.sign, r.timestamp,
                                        e1.file_info.fs_id)]

\* tl.generate(): download link 1
Step_dl1(e, resp) ==
    [e EXCEPT !.pc = "dl2",
              !.calls = Append(@, Call("get-download", e.tl.params)),
              !.answers = Append(@, resp),
              !.tl = generate_1(e.tl, resp)]

\* tl.generate(): download link 2 and the status
Step_dl2(e, resp, pick) ==
    [e EXCEPT !.pc = "cb70",
              !.calls = Append(@, Call("get-downloadp", e.tl.params)),
              !.answers = Append(@, resp),
              !.tl = generate_2(e.tl, resp, pick)]

\* Variant of PreferredLink: url_2 before url_1
PreferredLink_second(download_link) ==
    IF Get(download_link, "url_2", None) # None
    THEN Get(download_link, "url_2", None)
    ELSE Get(download_link, "url_1", None)

\* download_link.get('url_1') or download_link.get('url_2')
PreferredLink(download_link) ==
    LET url_1 == Get(download_link, "url_1", None)
    IN  IF url_1 # None /\ url_1 # "" THEN url_1
        ELSE Get(download_link, "url_2", None)

\* the checks of the generator's result, then the size
AfterGenerate(e, download_url, size) ==
    IF e.tl.result.status # "success" THEN Return(e, Failure(ErrGenerate))
    ELSE IF download_url = None \/ download_url = ""
         THEN Return(e, Failure(ErrNoLink))
    ELSE IF size # None /\ size # "" /\ ~IsInt(size) THEN Caught(e, "int")
    ELSE [e EXCEPT !.pc = "cb80", !.download_url = download_url,
                   !.file_size = FileSizeOf(size)]

\* progress 70, then the checks of the generator's result and the size
Step_cb70(e, outcome) ==
    LET e1 == Progress(e, 70, outcome)
    IN  IF e1.pc = "ret" THEN e1
        ELSE AfterGenerate(e1, PreferredLink(e1.tl.result.download_link),
                           e1.file_info.size)

\* progress 80, then the result
Step_cb80(e, outcome) ==
    LET e1 == Progress(e, 80, outcome)
    IN  IF e1.pc = "ret" THEN e1
        ELSE Return(e1, Success(e1.download_url, e1.file_info.name,
                                e1.file_size))

-----------------------------------------------------------------------------
(* The upstream services: what each request may be answered                *)

Exc == [kind |-> "exc"]
Json(body) == [kind |-> "json", body |-> body]
NoAnswer == [kind |-> "none"]

\* requests only sends http:// and https:// URLs; any other raises
Sendable(url) ==
    StartsWithAt(url, 1, "https://") \/ StartsWithAt(url, 1, "http://")

\* GET of the share page with allow_redirects: the status and the final URL
PageAnswers(url) ==
    IF ~Sendable(url) THEN { Exc }
    ELSE { Exc,
           [kind |-> "http", status |-> 404, url |-> url],
           [kind |-> "http", status |-> 200, url |-> url],
           [kind |-> "http", status |-> 200,
            url |-> "https://www.terabox.com/sharing/link?surl=AbC"] }

FileA ==
    [isdir |-> "0", path |-> "/movie.mp4", fs_id |-> "9001",
     server_filename |-> "movie.mp4", size |-> "52428800",
     thumbs |-> [url3 |-> "https://thumb.example/9001"]]

FileB ==
    [isdir |-> "0", path |-> "/notes.txt", fs_id |-> "9002",
     server_filename |-> "notes.txt"]

FileBadSize ==
    [isdir |-> "0", path |-> "/odd.MKV", fs_id |-> "9004",
     server_filename |-> "odd.MKV", size |-> "n/a"]

ItemNoFsId == [isdir |-> "0", path |-> "/x", server_filename |-> "x"]

DirD ==
    [isdir |-> "1", path |-> "/album", fs_id |-> "9003",
     server_filename |-> "album.mp4", size |-> "4096",
     listing |-> Json([list |-> << FileB >>])]

DirUnreachable ==
    [isdir |-> "1", path |-> "/gone", fs_id |-> "9005",
     server_filename |-> "gone", listing |-> Exc]

Listing(items) == Json([shareid |-> "4001", uk |-> "7001", list |-> items])

\* GET api/shorturlinfo
ListingAnswers ==
    { Exc,
      Json([errno |-> "105"]),
      Listing(<< >>),
      Listing(<< FileA >>),
      Listing(<< FileB, FileA >>),
      Listing(<< FileBadSize >>),
      Listing(<< DirD, FileA >>),
      Listing(<< FileA, DirUnreachable >>),
      Listing(<< FileA, ItemNoFsId >>),
      Json([shareid |-> "4001", list |-> << FileA >>]) }

\* GET api/get-info of the helper: the answer that signs, and the answers
\* that do not (unreachable, malformed body, not ok, timestamp missing)
SignOk == Json([ok |-> TRUE, sign |-> "SIGN1", timestamp |-> "1700000000"])

SignFailures ==
    { Exc,
      Json([error |-> "bad gateway"]),
      Json([ok |-> FALSE]),
      Json([ok |-> TRUE, sign |-> "SIGN1"]) }

SignAnswers == SignFailures \cup { SignOk }

\* POST api/get-download and api/get-downloadp of the helper
DownloadAnswers ==
    { Exc,
      Json([error |-> "expired"]),
      Json([downloadLink |-> None]),
      Json([downloadLink |-> ""]),
      Json([downloadLink |-> "https://d.terabox.com/file/f1?sign=abc"]) }

\* The answers to the request a frame is about to issue
AnswersFor(e) ==
    CASE e.pc = "page" -> PageAnswers(e.url)
      [] e.pc = "listing" -> ListingAnswers
      [] e.pc = "sign" -> SignAnswers
      [] e.pc \in { "dl1", "dl2" } -> DownloadAnswers
      [] OTHER -> { NoAnswer }

\* random.choice(self.base_urls), taken when wrap_url is called
PicksFor(e) == IF e.pc = "dl2" THEN 1..Len(base_urls) ELSE { 1 }

\* One event of a frame, by its pc
Advance(e, resp, pick, outcome) ==
    CASE e.pc = "cb5" -> Step_cb5(e, outcome)
      [] e.pc = "cb40" -> Step_cb40(e, outcome)
      [] e.pc = "cb60" -> Step_cb60(e, outcome)
      [] e.pc = "cb10" -> Step_cb10(e, outcome)
      [] e.pc = "page" -> Step_page(e, resp)
      [] e.pc = "listing" -> Step_listing(e, resp)
      [] e.pc = "sign" -> Step_sign(e, resp)
      [] e.pc = "cb30" -> Step_cb30(e, outcome)
      [] e.pc = "cb50" -> Step_cb50(e, outcome)
      [] e.pc = "dl1" -> Step_dl1(e, resp)
      [] e.pc = "dl2" -> Step_dl2(e, resp, pick)
      [] e.pc = "cb70" -> Step_cb70(e, outcome)
      [] e.pc = "cb80" -> Step_cb80(e, outcome)
      [] OTHER -> e

-----------------------------------------------------------------------------
(* Telegram side: send_video, process_message, webhook                     *)

\* One Bot API request: the method, its text or URL, and the percentage when
\* the text is the progress message (-1 otherwise)
Api(method, arg) == [api |-> method, arg |-> arg, progress |-> -1]

ProgressText == "Processing Your Terabox Video"

\* send_processing_message / update_processing_message
SendProgress(progress) ==
    [api |-> "sendMessage", arg |-> ProgressText, progress |-> progress]

EditProgress(progress) ==
    [api |-> "editMessageText", arg |-> ProgressText, progress |-> progress]

VideoErrorText == "Error: Could not send video directly."
VideoErrorMessage == "Error sending video: Please use the download link instead."
VideoTooLargeMessage ==
    "Error: The video file is too large to send directly through Telegram (max 50MB)."
VideoExceptionMessage ==
    "Error: Could not send video file. Please use the download link instead."

\* What the sendVideo request may do: accepted, rejected for its size,
\* rejected with another description, or raising (network, no JSON body)
SendVideoOutcomes == { "ok", "too_large", "rejected", "exc" }

\* send_video(chat_id, video_url, caption, parse_mode, existing_msg_id):
\* the value returned and the Bot API requests issued, in order
send_video(video_url, status_msg_id, outcome) ==
    LET before == IF status_msg_id # None THEN << EditProgress(70) >>
                  ELSE << >>
        post == << Api("sendVideo", video_url) >>
        after == IF status_msg_id # None
                 THEN << EditProgress(100), Api("deleteMessage", status_msg_id) >>
                 ELSE << >>
        error == IF status_msg_id # None
                 THEN << Api("editMessageText", VideoErrorText) >>
                 ELSE IF outcome = "too_large"
                      THEN << Api("sendMessage", VideoTooLargeMessage) >>
                      ELSE << Api("sendMessage", VideoErrorMessage) >>
    IN  IF outcome = "exc"
        THEN [sent |-> FALSE,
              calls |-> before \o post
                          \o << Api("sendMessage", VideoExceptionMessage) >>]
        ELSE IF outcome = "ok"
             THEN [sent |-> TRUE, calls |-> before \o post \o after]
        ELSE [sent |-> FALSE, calls |-> before \o post \o after \o error]

\* Variant of SuccessResponse: no fallback text
SuccessResponse_blank(result, sent) == ""

\* process_message, the response after a successful extraction
FallbackText(result) ==
    "Download Link Generated: Filename: " \o result.filename
        \o " Size: " \o result.size \o " Download Link: " \o result.url

SuccessResponse(result, sent) == IF sent THEN "" ELSE FallbackText(result)

\* process_message, the response after a failed extraction
FailureResponse(result) == "Error: " \o result.error

\* webhook: if response and response.strip()
Sendable_response(response) ==
    \E i \in 1..Len(response) : Char(response, i) \notin Space

-----------------------------------------------------------------------------
(* The bot: one webhook request from the update to the reply               *)

\* The texts of the incoming messages, each with what it is: the command it
\* names ("start", "help", "about", "unknown"), "link" or "other"
Messages ==
    { << "/start", "start" >>,
      << "/HELP", "help" >>,
      << "/About", "about" >>,
      << "/foo", "unknown" >>,
      << "/", "unknown" >>,
      << "/start@TeraboxBot", "unknown" >>,
      << "/help https://terabox.com/s/1AbC", "unknown" >>,
      << "/https://d-jp02-cpt.terabox.com/file/xyz?size=1", "unknown" >>,
      << "hello there", "other" >>,
      << "is terabox.org down?", "other" >>,
      << "terabox link please", "other" >>,
      << "", "other" >>,
      << "check this out https://terabox.com/s/1AbC? cool", "link" >>,
      << "https://teraboxapp.com/sharing/link?surl=XyZ", "link" >>,
      << "see terabox.com/s/1AbC.", "link" >>,
      << "https://d-jp02-cpt.terabox.com/file/xyz", "link" >>,
      << "https://d-jp02-cpt.terabox.com/file/xyz?fn=movie.mp4&size=52428800",
         "link" >>,
      << "get https://d-jp02-zen.terabox.com/file/abc?fin=my%20clip.mp4 now",
         "link" >>,
      << "https://d-jp02-zen.terabox.com/file/abc?fid=1-2-3", "link" >>,
      << "https://d-jp02-cpt.terabox.com/file/q?fin=b.mp4&fn=a.mkv&size=1536",
         "link" >> }

IdleBot ==
    [pc |-> "idle", text |-> None, kind |-> None, terabox_link |-> None,
     status_msg_id |-> None, sent |-> FALSE, response |-> None]

\* no pure function is called on its own
IdleFn == [op |-> "none"]

\* process_message, line 342: commands
ReceiveCommand ==
    /\ bot.pc = "idle"
    /\ \E m \in Messages :
          /\ IsCommand(m[1])
          /\ bot' = [bot EXCEPT !.pc = "reply", !.text = m[1], !.kind = m[2],
                                !.response = handle_command(lower(m[1]))]
    /\ UNCHANGED << ex, sh, tg, fn >>

\* process_message, lines 421-425: no command and no known hostname
ReceiveOther ==
    /\ bot.pc = "idle"
    /\ \E m \in Messages :
          /\ ~IsCommand(m[1])
          /\ ~HasTeraboxLink(m[1])
          /\ bot' = [bot EXCEPT !.pc = "reply", !.text = m[1], !.kind = m[2],
                                !.response = GuidanceText]
    /\ UNCHANGED << ex, sh, tg, fn >>

\* process_message, lines 356-382: a known hostname; the link, the
\* processing message (accepted by Telegram or not) and the call of
\* extract_terabox_download_link
ReceiveLink ==
    /\ bot.pc = "idle"
    /\ \E m \in Messages, accepted \in BOOLEAN :
          /\ HasTeraboxLink(m[1])
          /\ \E link \in { extract_url_from_text(m[1]) } :
                IF link = None \/ link = ""
                THEN /\ bot' = [bot EXCEPT !.pc = "reply", !.text = m[1],
                                           !.kind = m[2],
                                           !.terabox_link = link,
                                           !.response = NoLinkText]
                     /\ UNCHANGED << ex, sh, tg >>
                ELSE /\ bot' = [bot EXCEPT !.pc = "extract", !.text = m[1],
                                           !.kind = m[2],
                                           !.terabox_link = link,
                                           !.status_msg_id =
                                               IF accepted THEN "msg1"
                                               ELSE None]
                     /\ tg' = IF accepted THEN << SendProgress(0) >>
                              ELSE << SendProgress(0),
                                      Api("sendMessage", ProcessingText) >>
                     /\ ex' = Frame(link, "update_progress")
                     /\ sh' = Frame(link, "reference")
    /\ UNCHANGED fn

\* webhook, lines 68-70: an update whose message has no text
ReceiveNonText ==
    /\ bot.pc = "idle"
    /\ bot' = [bot EXCEPT !.pc = "done", !.kind = "nontext"]
    /\ tg' = << Api("sendMessage", NonTextText) >>
    /\ UNCHANGED << ex, sh, fn >>

\* update_progress(progress): edits the status message when there is one
Reported(e, progress) ==
    IF e.callback = "update_progress" /\ bot.status_msg_id # None
    THEN Append(tg, EditProgress(progress)) ELSE tg

\* A progress report of the extraction with the code up to the next event.
\* The reference frame takes the same event with a callback that returns.
Cb5 ==
    /\ ex.pc = "cb5"
    /\ \E outcome \in Outcomes(ex) : ex' = Step_cb5(ex, outcome)
    /\ sh' = Step_cb5(sh, "ok")
    /\ tg' = Reported(ex, 5)
    /\ UNCHANGED << bot, fn >>

Cb40 ==
    /\ ex.pc = "cb40"
    /\ \E outcome \in Outcomes(ex) : ex' = Step_cb40(ex, outcome)
    /\ sh' = Step_cb40(sh, "ok")
    /\ tg' = Reported(ex, 40)
    /\ UNCHANGED << bot, fn >>

Cb60 ==
    /\ ex.pc = "cb60"
    /\ \E outcome \in Outcomes(ex) : ex' = Step_cb60(ex, outcome)
    /\ sh' = Step_cb60(sh, "ok")
    /\ tg' = Reported(ex, 60)
    /\ UNCHANGED << bot, fn >>

Cb10 ==
    /\ ex.pc = "cb10"
    /\ \E outcome \in Outcomes(ex) : ex' = Step_cb10(ex, outcome)
    /\ sh' = Step_cb10(sh, "ok")
    /\ tg' = Reported(ex, 10)
    /\ UNCHANGED << bot, fn >>

\* An upstream request of the extraction with the code up to the next event
CallPage ==
    /\ ex.pc = "page"
    /\ \E resp \in PageAnswers(ex.url) :
          /\ ex' = Step_page(ex, resp)
          /\ sh' = Step_page(sh, resp)
    /\ UNCHANGED << bot, tg, fn >>

CallListing ==
    /\ ex.pc = "listing"
    /\ \E resp \in ListingAnswers :
          /\ ex' = Step_listing(ex, resp)
          /\ sh' = Step_listing(sh, resp)
    /\ UNCHANGED << bot, tg, fn >>

CallSign ==
    /\ ex.pc = "sign"
    /\ \E resp \in SignAnswers :
          /\ ex' = Step_sign(ex, resp)
          /\ sh' = Step_sign(sh, resp)
    /\ UNCHANGED << bot, tg, fn >>

Cb30 ==
    /\ ex.pc = "cb30"
    /\ \E outcome \in Outcomes(ex) : ex' = Step_cb30(ex, outcome)
    /\ sh' = Step_cb30(sh, "ok")
    /\ tg' = Reported(ex, 30)
    /\ UNCHANGED << bot, fn >>

Cb50 ==
    /\ ex.pc = "cb50"
    /\ \E outcome \in Outcomes(ex) : ex' = Step_cb50(ex, outcome)
    /\ sh' = Step_cb50(sh, "ok")
    /\ tg' = Reported(ex, 50)
    /\ UNCHANGED << bot, fn >>

CallDownload1 ==
    /\ ex.pc = "dl1"
    /\ \E resp \in DownloadAnswers :
          /\ ex' = Step_dl1(ex, resp)
          /\ sh' = Step_dl1(sh, resp)
    /\ UNCHANGED << bot, tg, fn >>

CallDownload2 ==
    /\ ex.pc = "dl2"
    /\ \E resp \in DownloadAnswers, pick \in 1..Len(base_urls) :
          /\ ex' = Step_dl2(ex, resp, pick)
          /\ sh' = Step_dl2(sh, resp, pick)
    /\ UNCHANGED << bot, tg, fn >>

Cb70 ==
    /\ ex.pc = "cb70"
    /\ \E outcome \in Outcomes(ex) : ex' = Step_cb70(ex, outcome)
    /\ sh' = Step_cb70(sh, "ok")
    /\ tg' = Reported(ex, 70)
    /\ UNCHANGED << bot, fn >>

Cb80 ==
    /\ ex.pc = "cb80"
    /\ \E outcome \in Outcomes(ex) : ex' = Step_cb80(ex, outcome)
    /\ sh' = Step_cb80(sh, "ok")
    /\ tg' = Reported(ex, 80)
    /\ UNCHANGED << bot, fn >>

\* The reference frame alone, once the extraction has returned before it
ReferenceRun ==
    /\ ex.pc = "ret"
    /\ sh.pc \notin { "ret", "idle" }
    /\ \E resp \in AnswersFor(sh), pick \in PicksFor(sh) :
          sh' = Advance(sh, resp, pick, "ok")
    /\ UNCHANGED << bot, ex, tg, fn >>

\* process_message, lines 384-417: send_video and the response
SendVideo ==
    /\ bot.pc = "extract"
    /\ ex.pc = "ret"
    /\ ex.result.success
    /\ \E outcome \in SendVideoOutcomes :
          LET r == send_video(ex.result.url, bot.status_msg_id, outcome)
          IN  /\ tg' = tg \o r.calls
              /\ bot' = [bot EXCEPT !.pc = "reply", !.sent = r.sent,
                                    !.response =
                                        SuccessResponse(ex.result, r.sent)]
    /\ UNCHANGED << ex, sh, fn >>

\* process_message, lines 418-419
ReportFailure ==
    /\ bot.pc = "extract"
    /\ ex.pc = "ret"
    /\ ~ex.result.success
    /\ bot' = [bot EXCEPT !.pc = "reply",
                          !.response = FailureResponse(ex.result)]
    /\ UNCHANGED << ex, sh, tg, fn >>

\* webhook, lines 65-67: the response is sent when it is not blank
Reply ==
    /\ bot.pc = "reply"
    /\ bot' = [bot EXCEPT !.pc = "done"]
    /\ tg' = IF Sendable_response(bot.response)
             THEN Append(tg, Api("sendMessage", bot.response)) ELSE tg
    /\ UNCHANGED << ex, sh, fn >>

Init ==
    /\ bot = IdleBot
    /\ ex = IdleFrame
    /\ sh = IdleFrame
    /\ tg = << >>
    /\ fn = IdleFn

Next ==
    \/ ReceiveCommand \/ ReceiveOther \/ ReceiveLink \/ ReceiveNonText
    \/ Cb5 \/ Cb40 \/ Cb60 \/ Cb10
    \/ CallPage \/ CallListing \/ CallSign
    \/ Cb30 \/ Cb50
    \/ CallDownload1 \/ CallDownload2
    \/ Cb70 \/ Cb80
    \/ SendVideo \/ ReportFailure \/ Reply

\* The bot serving one update
Spec == Init /\ [][Next]_vars

-----------------------------------------------------------------------------
(* extract_terabox_download_link called on its own, with any callback      *)

ExtractUrls ==
    { "https://terabox.com/s/1AbC",
      "https://teraboxapp.com/sharing/link?surl=XyZ",
      "terabox.com/s/1AbC",
      "https://d-jp02-cpt.terabox.com/file/xyz",
      "https://d-jp02-cpt.terabox.com/file/xyz?fn=movie.mp4&size=52428800",
      "https://d-jp02-zen.terabox.com/file/abc?fid=1-2-3",
      "" }

InitExtract ==
    /\ bot = [IdleBot EXCEPT !.pc = "call"]
    /\ \E url \in ExtractUrls, callback \in { "none", "caller" } :
          /\ ex = Frame(url, callback)
          /\ sh = Frame(url, "reference")
    /\ tg = << >>
    /\ fn = IdleFn

NextExtract ==
    \/ Cb5 \/ Cb40 \/ Cb60 \/ Cb10
    \/ CallPage \/ CallListing \/ CallSign
    \/ Cb30 \/ Cb50
    \/ CallDownload1 \/ CallDownload2
    \/ Cb70 \/ Cb80
    \/ ReferenceRun

SpecExtract == InitExtract /\ [][NextExtract]_vars

-----------------------------------------------------------------------------
(* Two calls of extract_terabox_download_link served at the same time.     *)
(*                                                                         *)
(* The objects of the two classes live in two arenas, fn.files and         *)
(* fn.links; the locals tf and tl of a frame hold addresses into them (0   *)
(* while the local is unbound).  A step of a frame reads the objects its   *)
(* locals point to, runs the event, and writes the objects back.           *)

\* Variant of NewObject: one object per class serves every call
NewObject_reused(arena) == 1

\* TeraboxFile() / TeraboxLink(...): the address of a fresh object
NewObject(arena) == Len(arena) + 1

\* the assignment of an object to the attribute cell at an address
Store(arena, ref, obj) ==
    IF ref > Len(arena) THEN Append(arena, obj)
    ELSE [arena EXCEPT ![ref] = obj]

\* the frame with the objects its locals point to
Deref(e, files, links) ==
    [e EXCEPT !.tf = IF e.tf = 0 THEN TeraboxFile_init ELSE files[e.tf],
              !.tl = IF e.tl = 0 THEN TeraboxLink_init("", "", "", "", "")
                     ELSE links[e.tl]]

\* the address a local holds after an event: a fresh one when the event is
\* the constructor call (the event at pc 'from' going on to 'to')
Allocated(e, e2, from, to, old, arena) ==
    IF e.pc = from /\ e2.pc = to THEN NewObject(arena) ELSE old

\* the frame and the arenas after an event that left the objects e2.tf, e2.tl
Held(e2, files, links, tf, tl) ==
    [frame |-> [e2 EXCEPT !.tf = tf, !.tl = tl],
     files |-> IF tf = 0 THEN files ELSE Store(files, tf, e2.tf),
     links |-> IF tl = 0 THEN links ELSE Store(links, tl, e2.tl)]

Placed(e, e2, files, links) ==
    Held(e2, files, links,
         Allocated(e, e2, "cb10", "page", e.tf, files),
         Allocated(e, e2, "cb50", "dl1", e.tl, links))

\* one event of a frame over the arenas
Run(e, files, links, resp, pick) ==
    Placed(e, Advance(Deref(e, files, links), resp, pick, "ok"), files, links)

PairUrls ==
    { "https://terabox.com/s/1AbC",
      "https://d-jp02-cpt.terabox.com/file/xyz?fn=movie.mp4&size=52428800" }

\* The answers to the request a frame of the pair is about to issue
PairAnswers(e) ==
    CASE e.pc = "page" ->
            { [kind |-> "http", status |-> 200, url |-> e.url] }
      [] e.pc = "listing" ->
            { Exc, Listing(<< FileA >>), Listing(<< FileB, FileA >>) }
      [] e.pc = "sign" -> { SignOk, Json([ok |-> FALSE]) }
      [] e.pc \in { "dl1", "dl2" } ->
            { Exc, Json([downloadLink |-> "https://d.terabox.com/file/f1?sign=abc"]) }
      [] OTHER -> { NoAnswer }

PairPicks(e) == IF e.pc = "dl2" THEN { 1, Len(base_urls) } ELSE { 1 }

InitPair ==
    /\ bot = [IdleBot EXCEPT !.pc = "pair"]
    /\ \E first \in PairUrls, second \in PairUrls :
          /\ ex = [Frame(first, "none") EXCEPT !.tf = 0, !.tl = 0]
          /\ sh = [Frame(second, "none") EXCEPT !.tf = 0, !.tl = 0]
    /\ tg = << >>
    /\ fn = [op |-> "pair", files |-> << >>, links |-> << >>,
             picks |-> << 1, 1 >>]

\* an event of the first call
StepFirst ==
    /\ fn.op = "pair"
    /\ ex.pc # "ret"
    /\ \E resp \in PairAnswers(ex), pick \in PairPicks(ex) :
          \E r \in { Run(ex, fn.files, fn.links, resp, pick) } :
             /\ ex' = r.frame
             /\ fn' = [fn EXCEPT !.files = r.files, !.links = r.links,
                                 !.picks[1] =
                                     IF ex.pc = "dl2" THEN pick ELSE @]
    /\ UNCHANGED << bot, sh, tg >>

\* an event of the second call
StepSecond ==
    /\ fn.op = "pair"
    /\ sh.pc # "ret"
    /\ \E resp \in PairAnswers(sh), pick \in PairPicks(sh) :
          \E r \in { Run(sh, fn.files, fn.links, resp, pick) } :
             /\ sh' = r.frame
             /\ fn' = [fn EXCEPT !.files = r.files, !.links = r.links,
                                 !.picks[2] =
                                     IF sh.pc = "dl2" THEN pick ELSE @]
    /\ UNCHANGED << bot, ex, tg >>

NextPair == StepFirst \/ StepSecond

SpecPair == InitPair /\ [][NextPair]_vars

-----------------------------------------------------------------------------
(* The pure functions called on their own                                  *)

\* hostname parts, with whether each is d-<label>.terabox.com/file/
Hosts ==
    { << "d-jp02-cpt.terabox.com/file/", TRUE >>,
      << "d-a.terabox.com/file/", TRUE >>,
      << "xd-9-z.terabox.com/file/", TRUE >>,
      << "www.terabox.com/file/", FALSE >>,
      << "d-.terabox.com/file/", FALSE >>,
      << "d-JP.terabox.com/file/", FALSE >>,
      << "d-jp_x.terabox.com/file/", FALSE >>,
      << "d-jp.terabox.com/s/", FALSE >>,
      << "d-jp.terabox.app/file/", FALSE >>,
      << "d-jp.terabox.com/file", FALSE >>,
      << "d-jp.teraboxXcom/file/", FALSE >> }

\* parameter parts, with whether each holds size=<digits>, fin=...mp4 or
\* fid=<digits>-<digits>-<digits>
Params ==
    { << "", FALSE >>,
      << "?size=52428800", TRUE >>,
      << "?fn=a.mkv&size=7", TRUE >>,
      << "?fin=clip.mp4", TRUE >>,
      << "?fin=a%20b.mp4&x=1", TRUE >>,
      << "?fid=1-2-3", TRUE >>,
      << "?fid=10-200-3000&fn=x", TRUE >>,
      << "?size=", FALSE >>,
      << "?size=abc", FALSE >>,
      << "?fin=.mp4", FALSE >>,
      << "?fin=clip.mkv", FALSE >>,
      << "?fin=clip.MP4", FALSE >>,
      << "?fid=1-2", FALSE >>,
      << "?fid=1-2-", FALSE >>,
      << "?fid=a-1-2", FALSE >>,
      << "?fid=1--2-3", FALSE >>,
      << "?fn=movie.mp4", FALSE >>,
      << "?SIZE=5", FALSE >>,
      << "?sign=abc&time=5", FALSE >> }

InitDirect ==
    /\ bot = IdleBot /\ ex = IdleFrame /\ sh = IdleFrame /\ tg = << >>
    /\ \E h \in Hosts, q \in Params, scheme \in { "https://", "http://" } :
          fn = [op |-> "is_direct_download_url",
                input |-> scheme \o h[1] \o "xyz" \o q[1],
                host |-> h[2], param |-> q[2],
                done |-> FALSE, out |-> FALSE]

Classify ==
    /\ fn.op = "is_direct_download_url"
    /\ ~fn.done
    /\ fn' = [fn EXCEPT !.done = TRUE, !.out = is_direct_download_url(fn.input)]
    /\ UNCHANGED << bot, ex, sh, tg >>

\* is_direct_download_url on its own
SpecDirect == InitDirect /\ [][Classify]_vars

\* C6: is_direct_download_url(url) is true if and only if url matches the
\* download-hostname pattern and one of size=<digits>, fin=...mp4,
\* fid=<digits>-<digits>-<digits>; the hostname alone or the parameters
\* alone never make a URL direct.
C6_HostAndParameter ==
    (fn.op = "is_direct_download_url" /\ fn.done) =>
        (fn.out <=> (fn.host /\ fn.param))

\* the hostname pattern alone: not direct
C6_Witness ==
    /\ fn.op = "is_direct_download_url"
    /\ fn.done
    /\ fn.host
    /\ ~fn.param
    /\ ~fn.out

\* the part before the path, the paths with the identifier of /s/<id>, and
\* the queries with the identifier of surl=<id> (None: there is none)
Origins ==
    { "https://terabox.com", "https://www.terabox.com", "terabox.com",
      "http://teraboxapp.com" }

Paths ==
    { << "/s/1AbC", "1AbC" >>,
      << "/s/1-x_9", "1-x_9" >>,
      << "", None >>,
      << "/", None >>,
      << "/s", None >>,
      << "/sharing/link", None >>,
      << "/wap/s/1x", None >>,
      << "/S/1AbC", None >>,
      << "/surl/1AbC", None >> }

Queries ==
    { << "", None >>,
      << "?surl=XyZ", "XyZ" >>,
      << "?a=b&surl=XyZ", "XyZ" >>,
      << "?surl=Q2&pwd=1234", "Q2" >>,
      << "?surl=XyZ&surl=Q2", "XyZ" >>,
      << "?pwd=1234", None >>,
      << "?xsurl=Q", None >>,
      << "?SURL=Q", None >>,
      << "?surl", None >>,
      << "?s=surl", None >> }

Fragments == { "", "#surl=zz", "#/s/zz" }

InitSurl ==
    /\ bot = IdleBot /\ ex = IdleFrame /\ sh = IdleFrame /\ tg = << >>
    /\ \E o \in Origins, pa \in Paths, q \in Queries, f \in Fragments :
          fn = [op |-> "extract_surl_parameter",
                input |-> o \o pa[1] \o q[1] \o f,
                path_id |-> pa[2], query_id |-> q[2],
                done |-> FALSE, out |-> None]

ExtractSurl ==
    /\ fn.op = "extract_surl_parameter"
    /\ ~fn.done
    /\ fn' = [fn EXCEPT !.done = TRUE, !.out = extract_surl_parameter(fn.input)]
    /\ UNCHANGED << bot, ex, sh, tg >>

\* extract_surl_parameter on its own
SpecSurl == InitSurl /\ [][ExtractSurl]_vars

\* C7: extract_surl_parameter returns <id> for a URL with a surl=<id> query
\* parameter, whatever its path; <id> for a URL with the path /s/<id> and
\* no surl query parameter; and no identifier for any other URL.
C7_SurlThenPath ==
    (fn.op = "extract_surl_parameter" /\ fn.done) =>
        fn.out = IF fn.query_id # None THEN fn.query_id ELSE fn.path_id

\* both are there and differ: the query parameter wins
C7_Witness ==
    /\ fn.op = "extract_surl_parameter"
    /\ fn.done
    /\ fn.query_id = "XyZ"
    /\ fn.path_id = "1AbC"
    /\ fn.out = "XyZ"

\* the longest run of trailing punctuation the texts carry
MaxTail == 3

Punctuation == { TrimChars[k] : k \in 1..Len(TrimChars) }

\* the runs of at most n punctuation characters
RECURSIVE Tails(_)
Tails(n) ==
    IF n = 0 THEN { "" }
    ELSE Tails(n - 1)
            \cup { t \o c : t \in Tails(n - 1), c \in Punctuation }

\* link tokens that end with no punctuation and match no direct pattern
Tokens ==
    { "https://terabox.com/s/1AbC",
      "teraboxapp.com/sharing/link?surl=XyZ",
      "(https://1024terabox.com/s/1q.w,e" }

InitText ==
    /\ bot = IdleBot /\ ex = IdleFrame /\ sh = IdleFrame /\ tg = << >>
    /\ \E token \in Tokens, tail \in Tails(MaxTail),
          lead \in { "", "see\n" }, trail \in { "", " thanks!" } :
          fn = [op |-> "extract_url_from_text",
                input |-> lead \o token \o tail \o trail,
                token |-> token \o tail, stem |-> token,
                done |-> FALSE, out |-> None]

ExtractUrl ==
    /\ fn.op = "extract_url_from_text"
    /\ ~fn.done
    /\ fn' = [fn EXCEPT !.done = TRUE, !.out = extract_url_from_text(fn.input)]
    /\ UNCHANGED << bot, ex, sh, tg >>

\* extract_url_from_text on its own, on texts whose link is found by the
\* token scan
SpecText == InitText /\ [][ExtractUrl]_vars

EndsWithPunctuation(s) == \E c \in Punctuation : EndsWith(s, c)

\* C8: the URL the token scan returns is a prefix of the matched token, the
\* characters removed are all among . , ! ? ) and the URL ends with none of
\* these five, for any run of trailing punctuation on the token.
C8_TrailingPunctuationRemoved ==
    (fn.op = "extract_url_from_text" /\ fn.done) =>
        /\ fn.out # None
        /\ IsPrefixOf(fn.out, fn.token)
        /\ \A i \in (Len(fn.out) + 1)..Len(fn.token) :
              Char(fn.token, i) \in Punctuation
        /\ ~EndsWithPunctuation(fn.out)

\* what the token scan does remove: a prefix of the token, short of it by
\* punctuation only
C8_OnlyPunctuationRemoved ==
    (fn.op = "extract_url_from_text" /\ fn.done) =>
        /\ fn.out # None
        /\ IsPrefixOf(fn.out, fn.token)
        /\ \A i \in (Len(fn.out) + 1)..Len(fn.token) :
              Char(fn.token, i) \in Punctuation

-----------------------------------------------------------------------------
(* Properties of extract_terabox_download_link                             *)

\* the two shapes of ExtractionResult
WellShaped(result) ==
    \/ /\ DOMAIN result = { "success", "url", "filename", "size" }
       /\ result.success
       /\ result.url # None /\ result.url # ""
    \/ /\ DOMAIN result = { "success", "error" }
       /\ ~result.success
       /\ result.error # None /\ result.error # ""

\* C1: extract_terabox_download_link never raises; for every URL, every
\* answer of the upstream calls and every behaviour of the callback it
\* returns {success: true, url, filename, size} with a non-empty url or
\* {success: false, error} with an error message, and nothing else.
C1_NeverRaises ==
    /\ ex.pc # "raised"
    /\ ex.pc = "ret" => WellShaped(ex.result)

\* an exception raised inside the call (int() of a size that is no number)
\* was converted to a failure result
C1_Witness ==
    /\ ex.pc = "ret"
    /\ ex.callback = "none"
    /\ Len(ex.answers) = 5
    /\ ex.result = Failure(ErrException \o "int")

\* C2: an extraction returns the result it would return with a callback
\* that always succeeds, whatever its own callback does at the milestones.
C2_CallbackIndependent ==
    (ex.pc = "ret" /\ sh.pc = "ret") => ex.result = sh.result

\* the answer to api/get-info that the frame was given, once it was
SignAnswered(e) == Len(e.answers) >= 3
SignAnswer(e) == e.answers[3]

DownloadApis == { "get-download", "get-downloadp" }

CalledDownload(e) ==
    \E i \in 1..Len(e.calls) : e.calls[i].api \in DownloadApis

\* C3: when the signing query fails (unreachable, malformed body, not ok)
\* after a listing with a non-empty file list, the resolver's status is
\* 'failed', no download-link endpoint is called, and the extraction returns
\* success = false.
C3_SignFailureDominates ==
    ( /\ SignAnswered(ex)
      /\ SignAnswer(ex) \in SignFailures
      /\ Len(ex.tf.result.list) > 0 )
    => /\ ex.tf.result.status = "failed"
       /\ ~CalledDownload(ex)
       /\ ex.pc \in { "cb30", "ret" }
       /\ ex.pc = "ret" => ~ex.result.success

C3_Witness ==
    /\ ex.pc = "ret"
    /\ SignAnswered(ex)
    /\ SignAnswer(ex) = Json([ok |-> TRUE, sign |-> "SIGN1"])
    /\ Len(ex.tf.result.list) > 0
    /\ ex.result = Failure(ErrSign)

\* the answers to get-download and get-downloadp, once both were given
BothAnswered(e) == Len(e.answers) = 5
Download1(e) == e.answers[4]
Download2(e) == e.answers[5]

\* the response carries a downloadLink field
Carries(resp) == resp.kind = "json" /\ Has(resp.body, "downloadLink")

\* the link of the response, "" when it carries none or a null one
LinkOf(resp) ==
    IF Carries(resp) /\ resp.body.downloadLink # None
    THEN resp.body.downloadLink ELSE ""

\* C4 as stated: the extraction succeeds whenever one of the two endpoints
\* returns a response carrying a downloadLink field.
C4_OneLinkSucceeds ==
    ( /\ ex.pc = "ret"
      /\ BothAnswered(ex)
      /\ Carries(Download1(ex)) \/ Carries(Download2(ex)) )
    => ex.result.success

\* the first entry's size is absent, empty or a number
SizeReadable(e) ==
    \/ e.file_info.size = None
    \/ e.file_info.size = ""
    \/ IsInt(e.file_info.size)

\* C4, amended: get-download is always followed by get-downloadp; the
\* extraction fails with the link-generation error exactly when neither
\* response carries a downloadLink the generator can store (any for the
\* first endpoint, a non-null one for the second); it succeeds exactly when
\* the first endpoint's link is non-empty or the second's is non-null, and
\* the size of the first entry is readable.
C4_EitherEndpoint ==
    /\ CalledDownload(ex) =>
          \/ ex.pc = "dl2"
          \/ \E i \in 1..Len(ex.calls) : ex.calls[i].api = "get-downloadp"
    /\ (ex.pc = "ret" /\ BothAnswered(ex)) =>
          /\ ex.result = Failure(ErrGenerate)
                <=> /\ ~Carries(Download1(ex))
                    /\ ~( /\ Carries(Download2(ex))
                          /\ Download2(ex).body.downloadLink # None )
          /\ ex.result.success
                <=> /\ \/ LinkOf(Download1(ex)) # ""
                       \/ /\ Carries(Download2(ex))
                          /\ Download2(ex).body.downloadLink # None
                    /\ SizeReadable(ex)

\* the first endpoint unreachable, the second with a link: success
C4_Witness ==
    /\ ex.pc = "ret"
    /\ BothAnswered(ex)
    /\ Download1(ex) = Exc
    /\ LinkOf(Download2(ex)) # ""
    /\ ex.result.success
    /\ ex.result.url = wrap_url(LinkOf(Download2(ex)), 3)

\* The direct download URLs of the messages, with the filename and the size
\* their parameters spell
DirectExpected ==
    { << "https://d-jp02-cpt.terabox.com/file/xyz?fn=movie.mp4&size=52428800",
         "movie.mp4", "50.00 MB" >>,
      << "https://d-jp02-zen.terabox.com/file/abc?fin=my%20clip.mp4",
         "my clip.mp4", "Unknown size" >>,
      << "https://d-jp02-zen.terabox.com/file/abc?fid=1-2-3",
         "TeraboxFile", "Unknown size" >>,
      << "https://d-jp02-cpt.terabox.com/file/q?fin=b.mp4&fn=a.mkv&size=1536",
         "a.mkv", "1.50 KB" >> }

IsPrefix(s, t) == Len(s) <= Len(t) /\ SubSeq(t, 1, Len(s)) = s

\* C5: for an input classified as a direct download URL the extraction
\* issues no upstream request, reports 5, 40, 60 in this order, and returns
\* success with the input URL unchanged, the filename of fn= (else fin=,
\* else the placeholder) and the size of size= (else unknown).
C5_DirectPath ==
    (ex.pc # "idle" /\ is_direct_download_url(ex.input)) =>
        /\ ex.calls = << >>
        /\ IsPrefix(ex.reports, << 5, 40, 60 >>)
        /\ ex.pc = "ret" =>
              /\ ex.reports = << 5, 40, 60 >>
              /\ \E d \in DirectExpected :
                    /\ d[1] = ex.input
                    /\ ex.result = Success(ex.input, d[2], d[3])

C5_Witness ==
    /\ ex.pc = "ret"
    /\ is_direct_download_url(ex.input)
    /\ ex.result.success
    /\ ex.result.filename = "a.mkv"
    /\ ex.result.size = "1.50 KB"

-----------------------------------------------------------------------------
(* Properties of process_message and webhook                               *)

\* the position of the sendVideo request among the requests, 0 when none
VideoAt ==
    IF \E i \in 1..Len(tg) : tg[i].api = "sendVideo"
    THEN CHOOSE i \in 1..Len(tg) : tg[i].api = "sendVideo"
    ELSE 0

\* C9: after a successful extraction, when send_video returns False the
\* user is sent a text message containing the resolved URL; when it returns
\* True the response is empty and no text message follows the video.
C9_FallbackLink ==
    (bot.pc = "done" /\ ex.pc = "ret" /\ ex.result.success) =>
        /\ VideoAt > 0
        /\ tg[VideoAt].arg = ex.result.url
        /\ IF bot.sent
           THEN /\ bot.response = ""
                /\ \A i \in (VideoAt + 1)..Len(tg) : tg[i].api # "sendMessage"
           ELSE /\ tg[Len(tg)].api = "sendMessage"
                /\ Contains(tg[Len(tg)].arg, ex.result.url)

\* sendVideo rejected for the size of the file, the link sent as text
C9_Witness ==
    /\ bot.pc = "done"
    /\ ex.pc = "ret"
    /\ ex.result.success
    /\ ~bot.sent
    /\ \E i \in 1..Len(tg) : tg[i] = Api("editMessageText", VideoErrorText)
    /\ tg[Len(tg)] = Api("sendMessage", FallbackText(ex.result))

\* the fixed text of each kind of command
CommandText(kind) ==
    CASE kind = "start" -> StartText
      [] kind = "help" -> HelpText
      [] kind = "about" -> AboutText
      [] kind = "unknown" -> UnknownCommandText

\* C10: a text that starts with "/" is answered as a command: /start, /help
\* and /about in any case with their fixed texts, any other with the
\* unknown-command text; no extraction starts and no processing message is
\* sent, whatever else the text holds.
C10_CommandsOnly ==
    (bot.text # None /\ Len(bot.text) > 0 /\ Head(bot.text) = "/") =>
        /\ bot.kind \in { "start", "help", "about", "unknown" }
        /\ bot.response = CommandText(bot.kind)
        /\ ex = IdleFrame
        /\ bot.pc = "reply" => tg = << >>
        /\ bot.pc = "done" => tg = << Api("sendMessage", bot.response) >>

C10_Witness ==
    /\ bot.pc = "done"
    /\ bot.text = "/help https://terabox.com/s/1AbC"
    /\ bot.response = UnknownCommandText
    /\ ex = IdleFrame

\* C11: a text that is no command and holds none of the known hostnames is
\* answered with the guidance text and nothing else happens: no processing
\* message, no extraction, no upstream request.
C11_GuidanceOnly ==
    bot.kind = "other" =>
        /\ bot.response = GuidanceText
        /\ ex = IdleFrame
        /\ bot.pc = "reply" => tg = << >>
        /\ bot.pc = "done" => tg = << Api("sendMessage", GuidanceText) >>

C11_Witness ==
    /\ bot.pc = "done"
    /\ bot.text = "is terabox.org down?"
    /\ tg = << Api("sendMessage", GuidanceText) >>

-----------------------------------------------------------------------------
(* C12: two calls at the same time                                         *)

RequestSteps == { "page", "listing", "sign", "dl1", "dl2" }

\* The call run alone from its first event, given the answers in the order
\* its requests were answered
RECURSIVE Replay(_, _, _)
Replay(e, answers, pick) ==
    IF e.pc = "ret" THEN e
    ELSE IF e.pc \notin RequestSteps
         THEN Replay(Advance(e, NoAnswer, pick, "ok"), answers, pick)
    ELSE IF answers = << >>
         THEN Return(e, Failure("more requests than answers"))
    ELSE Replay(Advance(e, Head(answers), pick, "ok"), Tail(answers), pick)

Alone(e, pick) == Replay(Frame(e.input, "none"), e.answers, pick)

SameAsAlone(e, pick) ==
    e.pc = "ret" =>
        /\ e.result = Alone(e, pick).result
        /\ e.calls = Alone(e, pick).calls

-----------------------------------------------------------------------------
(* C13 .. C18: the share resolver and the order of the upstream requests    *)

PageAnswered(e) == Len(e.answers) >= 1
ListingAnswered(e) == Len(e.answers) >= 2
ListingAnswer(e) == e.answers[2]

CalledApi(e, api) == \E i \in 1..Len(e.calls) : e.calls[i].api = api

\* the listing query failed: the request or the decoding of its body raised
ListingFailed(e) == ListingAnswered(e) /\ ListingAnswer(e) = Exc

\* C13: in the share resolver each step's failure is terminal: when the page
\* fetch fails or yields no identifier, or the listing query fails, no later
\* request is issued (no signing query after a failed listing query) and the
\* extraction returns the failure of search.
C13_FailureIsTerminal ==
    /\ (PageAnswered(ex) /\ ex.tf.short_url = None) =>
          /\ ex.pc = "ret"
          /\ ex.result = Failure(ErrSearch)
          /\ Len(ex.calls) = 1
    /\ ListingFailed(ex) =>
          /\ ex.pc = "ret"
          /\ ex.result = Failure(ErrSearch)
          /\ ~CalledApi(ex, "get-info")

\* the user-supplied URL carries the query parameter surl=XyZ
CarriesSurl(e) == FirstParam(e.input, "surl") = "XyZ"

\* C14: a share URL carrying surl=<id> is resolved with identifier <id>
\* whenever the page fetch returns 200: when the final URL holds no surl=
\* match the fallback extraction yields <id>, so the call does not fail for
\* lack of an identifier.
C14_SurlSurvives ==
    ( /\ PageAnswered(ex)
      /\ CarriesSurl(ex)
      /\ ex.answers[1].kind = "http"
      /\ ex.answers[1].status = 200
      /\ SurlMatch(ex.answers[1].url) = None )
    => /\ ex.tf.short_url = "XyZ"
       /\ ex.result # Failure(ErrSearch)

\* the short identifier a request carries in its shorturl parameter
CarriedId(call) ==
    IF call.api = "share/list"
    THEN Sub(call.arg, 1, Find(call.arg, "&dir=") - 1)
    ELSE call.arg

IdRequests == { "shorturlinfo", "share/list", "get-info" }

\* C15: within one resolution the top-level listing query, every
\* child-directory listing query and the signing query carry the same short
\* identifier, the one extracted from the resolved URL.
C15_SameIdentifier ==
    \A i \in 1..Len(ex.calls) :
        ex.calls[i].api \in IdRequests =>
            CarriedId(ex.calls[i]) = ex.tf.short_url

\* the listing answer holds no file list, or an empty one
EmptyListing(resp) ==
    /\ resp.kind = "json"
    /\ Len(Get(resp.body, "list", << >>)) = 0

\* C16: when the listing query yields a missing or empty file list the
\* extraction fails with the no-files error, whatever the signing query's
\* outcome.
C16_NoFilesError ==
    ( /\ ListingAnswered(ex)
      /\ EmptyListing(ListingAnswer(ex))
      /\ ex.pc = "ret" )
    => ex.result = Failure(ErrNoFiles)

\* the place of a request in the order of one extraction
Rank(api) ==
    CASE api = "page" -> 1
      [] api = "shorturlinfo" -> 2
      [] api = "share/list" -> 3
      [] api = "get-info" -> 4
      [] api = "get-download" -> 5
      [] api = "get-downloadp" -> 6

OnceApis ==
    { "page", "shorturlinfo", "get-info", "get-download", "get-downloadp" }

Count(e, api) == Cardinality({ i \in 1..Len(e.calls) : e.calls[i].api = api })

\* C17: in one share-flow extraction the requests are issued one after
\* another in the order page, listing (with its child-directory listings),
\* signing, first download-link request, second download-link request; each
\* of them except the child listings is issued at most once, and every
\* request issued has been answered before the next is issued.
C17_OrderedOnce ==
    /\ \A i \in 1..Len(ex.calls), j \in 1..Len(ex.calls) :
          i < j => Rank(ex.calls[i].api) <= Rank(ex.calls[j].api)
    /\ \A api \in OnceApis : Count(ex, api) <= 1
    /\ \A i \in 1..Len(ex.calls), j \in 1..Len(ex.calls) :
          i < j => ex.calls[i] # ex.calls[j]
    /\ Len(ex.answers) = Cardinality({ api \in OnceApis : Count(ex, api) = 1 })

\* all six kinds of request were issued, a child listing among them; the
\* first download-link request failed and the second was issued once
C17_Witness ==
    /\ ex.pc = "ret"
    /\ ex.result.success
    /\ Len(ex.calls) = 6
    /\ ex.answers[4] = Exc
    /\ ex.calls[3].api = "share/list"
    /\ ex.calls[6].api = "get-downloadp"

\* the first entry of the top-level listing, as the upstream sent it
FirstEntry(e) == ListingAnswer(e).body.list[1]

\* the link the first endpoint returned is present and non-empty
HasUrl1(e) ==
    /\ Carries(Download1(e))
    /\ LinkOf(Download1(e)) # None
    /\ LinkOf(Download1(e)) # ""

\* C18: in a successful share-flow extraction both download-link requests
\* carry the fs_id of the first entry of the top-level listing, the filename
\* returned is that entry's name, and the url returned is url_1 when url_1
\* is present and non-empty, url_2 (the wrapped link of the second endpoint)
\* only otherwise.
C18_FirstEntryAndUrl1 ==
    ( /\ ex.pc = "ret"
      /\ ex.result.success
      /\ BothAnswered(ex) )
    => /\ \A i \in 1..Len(ex.calls) :
             ex.calls[i].api \in DownloadApis =>
                 ex.calls[i].arg.fs_id = FirstEntry(ex).fs_id
       /\ ex.result.filename = FirstEntry(ex).server_filename
       /\ HasUrl1(ex) => ex.result.url = LinkOf(Download1(ex))
       /\ ~HasUrl1(ex) =>
             \E pick \in 1..Len(base_urls) :
                 ex.result.url = wrap_url(LinkOf(Download2(ex)), pick)

\* the first entry is a directory and a file follows it; the first endpoint
\* gave no link, so the link of the second is returned
C18_Witness ==
    /\ ex.pc = "ret"
    /\ ex.result.success
    /\ BothAnswered(ex)
    /\ ListingAnswer(ex) = Listing(<< DirD, FileA >>)
    /\ ex.result.filename = "album.mp4"
    /\ Download1(ex) = Exc
    /\ ex.result.url = wrap_url(LinkOf(Download2(ex)), 3)

-----------------------------------------------------------------------------
(* C19, C20: the status message                                            *)

Deleted == \E i \in 1..Len(tg) : tg[i].api = "deleteMessage"

\* C19: send_video deletes the progress message only after a successful
\* upload: when the sendVideo request was rejected no deleteMessage is
\* issued, so the status message still exists when the error text is
\* written into it.
C19_DeletedOnlyWhenSent ==
    (VideoAt > 0 /\ bot.pc \in { "reply", "done" } /\ ~bot.sent) => ~Deleted

\* the percentages written to the status message, in the order written
RECURSIVE Percentages(_)
Percentages(log) ==
    IF log = << >> THEN << >>
    ELSE IF Head(log).progress >= 0
         THEN << Head(log).progress >> \o Percentages(Tail(log))
    ELSE Percentages(Tail(log))

\* C20: over one request the percentages written to the status message never
\* decrease, from the initial 0 through the milestones of the extraction to
\* the updates of send_video.
C20_ProgressMonotone ==
    \A i \in 1..Len(Percentages(tg)), j \in 1..Len(Percentages(tg)) :
        i < j => Percentages(tg)[i] <= Percentages(tg)[j]

-----------------------------------------------------------------------------
(* C21: what a download-link request carries                               *)

\* the parameters of a download-link request come from the signing answer
\* and the listing answer of the extraction
FromAnswers(e, params) ==
    /\ params.sign = SignAnswer(e).body.sign
    /\ params.timestamp = SignAnswer(e).body.timestamp
    /\ params.shareid = ListingAnswer(e).body.shareid
    /\ params.uk = ListingAnswer(e).body.uk
    /\ params.fs_id = FirstEntry(e).fs_id
    /\ \A k \in DOMAIN params : params[k] # ""

\* C21: a download-link request is issued only when the resolver's status
\* is 'success' and its file list is non-empty; its sign and timestamp are
\* those of the one signing answer, which is ok, and its shareid, uk and
\* fs_id are those of the listing answer of the same extraction; none is the
\* default empty value.
C21_RequestWellFounded ==
    CalledDownload(ex) =>
        /\ ex.tf.result.status = "success"
        /\ Len(ex.tf.result.list) > 0
        /\ SignAnswer(ex).kind = "json"
        /\ Get(SignAnswer(ex).body, "ok", FALSE)
        /\ Has(SignAnswer(ex).body, "sign")
        /\ Has(SignAnswer(ex).body, "timestamp")
        /\ ListingAnswer(ex).kind = "json"
        /\ Has(ListingAnswer(ex).body, "shareid")
        /\ Has(ListingAnswer(ex).body, "uk")
        /\ \A i \in 1..Len(ex.calls) :
              ex.calls[i].api \in DownloadApis =>
                  FromAnswers(ex, ex.calls[i].arg)

\* both download-link requests were issued for the first of two files
C21_Witness ==
    /\ ListingAnswered(ex)
    /\ ListingAnswer(ex) = Listing(<< FileB, FileA >>)
    /\ CalledApi(ex, "get-download")
    /\ CalledApi(ex, "get-downloadp")
    /\ ex.calls[Len(ex.calls)].arg.fs_id = "9002"
    /\ ex.calls[Len(ex.calls)].arg.sign = "SIGN1"

-----------------------------------------------------------------------------
(* C22, C23: packData called on its own                                    *)

MaxItems == 3

DirNested ==
    [isdir |-> "1", path |-> "/top", fs_id |-> "9006",
     server_filename |-> "top", size |-> "8192",
     thumbs |-> [url3 |-> "https://thumb.example/9006"],
     listing |-> Json([list |-> << DirD, FileA >>])]

DirBadChild ==
    [isdir |-> "1", path |-> "/mixed", fs_id |-> "9007",
     server_filename |-> "mixed",
     listing |-> Json([list |-> << FileA, ItemNoFsId >>])]

DirNoList ==
    [isdir |-> "1", path |-> "/denied", fs_id |-> "9008",
     server_filename |-> "denied", listing |-> Json([errno |-> "2"])]

DirHidden ==
    [isdir |-> "2", path |-> "/outer", fs_id |-> "9009",
     server_filename |-> "outer.mkv",
     listing |-> Json([list |-> << FileB, DirUnreachable >>])]

ItemBadIsdir ==
    [isdir |-> "yes", path |-> "/y", fs_id |-> "9010",
     server_filename |-> "y.mp3"]

PackPool ==
    { FileA, FileB, ItemNoFsId, ItemBadIsdir, DirD, DirUnreachable,
      DirNested, DirBadChild, DirNoList, DirHidden }

\* the bodies packData is called on: a list of at most MaxItems items, or a
\* body without list
PackBodies ==
    { [errno |-> "105"] } \cup
    { [list |-> items] :
        items \in UNION { [1..n -> PackPool] : n \in 0..MaxItems } }

InitPack ==
    /\ bot = [IdleBot EXCEPT !.pc = "call"]
    /\ ex = IdleFrame
    /\ sh = IdleFrame
    /\ tg = << >>
    /\ \E req \in PackBodies :
          fn = [op |-> "packData", input |-> req, done |-> FALSE,
                out |-> Packed(<< >>, << >>, FALSE)]

PackData ==
    /\ fn.op = "packData"
    /\ ~fn.done
    /\ fn' = [fn EXCEPT !.done = TRUE, !.out = packData(fn.input, "1AbC")]
    /\ UNCHANGED << bot, ex, sh, tg >>

SpecPack == InitPack /\ [][PackData]_vars

\* the item is a directory as the upstream marks it
MarkedDir(item) == item.isdir # "0"

RECURSIVE WholeOrEmpty(_, _)
RECURSIVE EntryOf(_, _)

\* the entry is the one of the item: a directory carries its child listing,
\* itself whole or empty, and no size, thumbnail or type; a file carries no
\* child listing
EntryOf(entry, item) ==
    /\ { "isdir", "path", "fs_id", "server_filename" } \subseteq DOMAIN item
    /\ entry.name = item.server_filename
    /\ entry.path = item.path
    /\ entry.fs_id = item.fs_id
    /\ IF MarkedDir(item)
       THEN /\ "child" \in DOMAIN entry
            /\ entry.size = "" /\ entry.image = "" /\ entry.type = "other"
            /\ item.listing.kind = "json"
            /\ WholeOrEmpty(entry.child, item.listing.body)
       ELSE "child" \notin DOMAIN entry

\* the listing is empty, or holds one entry per item of the body's list, in
\* its order
WholeOrEmpty(files, req) ==
    \/ files = << >>
    \/ /\ "list" \in DOMAIN req
       /\ Len(files) = Len(req.list)
       /\ \A k \in 1..Len(files) : EntryOf(files[k], req.list[k])

\* a directory of the body's list whose listing request raises
ChildRaises(req) ==
    /\ "list" \in DOMAIN req
    /\ \E k \in 1..Len(req.list) :
          /\ "listing" \in DOMAIN req.list[k]
          /\ req.list[k].listing.kind = "exc"

\* C22: packData is all-or-nothing at each level: it returns one entry per
\* item of the upstream list, in upstream order (a directory with its child
\* listing, empty size and thumbnail and type 'other'; a file without child
\* listing), or the empty list, never a part of the list; when fetching a
\* directory's children raises the enclosing level's listing is empty; and
\* no exception leaves it.
C22_AllOrNothing ==
    (fn.op = "packData" /\ fn.done) =>
        /\ ~fn.out.raised
        /\ WholeOrEmpty(fn.out.files, fn.input)
        /\ ChildRaises(fn.input) => fn.out.files = << >>

\* a whole listing of three entries: a directory two levels deep, a
\* directory whose own listing came back empty because a directory inside
\* it could not be fetched, and a file
C22_Witness ==
    /\ fn.op = "packData"
    /\ fn.done
    /\ fn.input = [list |-> << DirNested, DirHidden, FileA >>]
    /\ Len(fn.out.files) = 3
    /\ Len(fn.out.files[1].child) = 2
    /\ Len(fn.out.files[1].child[1].child) = 1
    /\ fn.out.files[2].child = << >>

-----------------------------------------------------------------------------
(* The recursive listing, request by request.                              *)
(*                                                                         *)
(* fn.stack holds the activations of packData, the innermost last: todo is *)
(* the rest of req['list'] (each item "file" or "dir"), packed is all_file. *)
(* fn.wait is a share/list request of getChildFile sent and not answered.  *)
(* The upstream decides what each directory holds when it is asked; it     *)
(* shows directories down to MaxDepth levels.                              *)

MaxDepth == 3

ListingShapes ==
    { << >>, << "file" >>, << "dir" >>, << "file", "dir" >>,
      << "dir", "file" >>, << "dir", "dir" >> }

Flat(shape) == \A k \in 1..Len(shape) : shape[k] = "file"

Activation(items) == [todo |-> items, packed |-> << >>]

Top == fn.stack[Len(fn.stack)]

\* the stack with its innermost activation replaced
WithTop(stack, a) == [stack EXCEPT ![Len(stack)] = a]

FileEntry == [dir |-> FALSE]
DirEntry(child) == [dir |-> TRUE, child |-> child]

\* all_file.append(file_info) and the next item
Append_entry(a, entry) ==
    [todo |-> Tail(a.todo), packed |-> Append(a.packed, entry)]

InitListing ==
    /\ bot = [IdleBot EXCEPT !.pc = "call"]
    /\ ex = IdleFrame
    /\ sh = IdleFrame
    /\ tg = << >>
    /\ \E shape \in ListingShapes :
          fn = [op |-> "listing", stack |-> << Activation(shape) >>,
                wait |-> FALSE, returned |-> FALSE, out |-> << >>,
                asked |-> 0, raised |-> FALSE]

\* packData, the loop body of an item that is no directory
PackFile ==
    /\ fn.op = "listing" /\ ~fn.returned /\ ~fn.wait
    /\ Top.todo # << >>
    /\ Head(Top.todo) = "file"
    /\ fn' = [fn EXCEPT !.stack = WithTop(@, Append_entry(Top, FileEntry))]
    /\ UNCHANGED << bot, ex, sh, tg >>

\* packData, a directory item: getChildFile sends its request, which
\* carries no timeout
RequestChild ==
    /\ fn.op = "listing" /\ ~fn.returned /\ ~fn.wait
    /\ Top.todo # << >>
    /\ Head(Top.todo) = "dir"
    /\ fn' = [fn EXCEPT !.wait = TRUE, !.asked = @ + 1]
    /\ UNCHANGED << bot, ex, sh, tg >>

\* the upstream answers the request with a listing: getChildFile calls
\* packData on it
AnswerChild ==
    /\ fn.op = "listing" /\ fn.wait
    /\ \E shape \in ListingShapes :
          /\ Len(fn.stack) + 1 >= MaxDepth => Flat(shape)
          /\ fn' = [fn EXCEPT !.wait = FALSE,
                              !.stack = Append(@, Activation(shape))]
    /\ UNCHANGED << bot, ex, sh, tg >>

\* the request raises: the exception leaves getChildFile and is caught by
\* the packData that called it, which returns []
ChildRaises_step ==
    /\ fn.op = "listing" /\ fn.wait
    /\ fn' = [fn EXCEPT !.wait = FALSE, !.raised = TRUE,
                        !.stack = WithTop(@, Activation(<< >>))]
    /\ UNCHANGED << bot, ex, sh, tg >>

\* return all_file: to getChildFile and the loop of the caller, or, from
\* the outermost activation, to getMainFile
ReturnLevel ==
    /\ fn.op = "listing" /\ ~fn.returned /\ ~fn.wait
    /\ Top.todo = << >>
    /\ IF Len(fn.stack) = 1
       THEN fn' = [fn EXCEPT !.returned = TRUE, !.out = Top.packed]
       ELSE fn' = [fn EXCEPT
                     !.stack = WithTop(SubSeq(@, 1, Len(@) - 1),
                                       Append_entry(@[Len(@) - 1],
                                                    DirEntry(Top.packed)))]
    /\ UNCHANGED << bot, ex, sh, tg >>

NextListing ==
    PackFile \/ RequestChild \/ AnswerChild \/ ChildRaises_step \/ ReturnLevel

\* The steps of the code are taken when they can be; nothing makes the
\* upstream answer a request, and the request sets no timeout.
SpecListing ==
    /\ InitListing
    /\ [][NextListing]_vars
    /\ WF_vars(PackFile) /\ WF_vars(RequestChild) /\ WF_vars(ReturnLevel)

\* C23: the recursive listing terminates whatever the upstream does: the
\* resolve call eventually returns.
C23_EventuallyReturns == <>(fn.returned)

====
